---- MODULE Spec2Model ----
(***************************************************************************)
(* Verification model of the openzalo channel plugin.                      *)
(*                                                                         *)
(* Part A: the outbound dedupe guard (outbound-dedupe.ts, the version with *)
(*         sha256 signatures and sequence numbers, src/index.ts 240-400).  *)
(* Part B: the inbound pipeline of the account monitor                     *)
(*         (src/src/monitor.ts: listener callback and processMessage).     *)
(*                                                                         *)
(* Strings are modelled as sequences of runs [c |-> char, n |-> count] in  *)
(* canonical form (adjacent runs carry different characters), so that a    *)
(* 1500-character prefix is one run and trim/slice/concatenation are       *)
(* computed as the code computes them.                                     *)
(***************************************************************************)
EXTENDS Integers, Sequences, FiniteSets, TLC

VARIABLES
    \* ---- Part A: outbound dedupe guard -------------------------------
    clock,                \* Date.now() / nowMs, in milliseconds
    inflightBySignature,  \* Map<string, OpenzaloOutboundDedupeEntry>
    inflightByTicket,     \* Map<number, OpenzaloOutboundDedupeEntry>
    recentBySignature,    \* Map<string, number> in insertion order
    nextTicketId,         \* let nextTicketId = 0
    tickets,              \* tickets handed out to callers so far
    steps,                \* number of calls and clock advances so far (bounded)
    lastCall,             \* observation of the last call made on the guard
    heldSince,            \* per signature: time of the successful acquire not yet
                          \* followed by a release call for that signature
    owner,                \* per signature: payload of the last successful acquire
    sentAt,               \* per signature: time of the release(sent=true) not yet
                          \* followed by a successful acquire
    executing,            \* the tickets handed out and not yet passed to
                          \* release, each with the time of its acquire
    \* ---- Part B: inbound pipeline of the account monitor -------------
    account,              \* ResolvedOpenzaloAccount.config and the resolved bot id
    tasks,                \* processMessage invocations, in arrival order
    humanPassSessions,    \* const humanPassSessions = new Set<string>()
    mentionDetectionFailureWarnings,  \* new Set<string>() of warning keys
    sessionLog,           \* messages handed to recordInboundSession, in order
    pairingRequests,      \* pending requests of the host's pairing store, by id
    \* ---- Part C: handleOpenzaloInbound (inbound.ts) ---------------------
    turns,                \* handleOpenzaloInbound invocations, in arrival order
    pendingGroupHistory,  \* pending-history buffer of the group, oldest first
    \* ---- Part D: deliverOpenzaloReply (inbound.ts and monitor.ts) ------
    textChunkLimit,       \* account.config.textChunkLimit as configured
    replies,              \* the reply payloads the dispatcher delivers in the turn
    call,                 \* the deliverOpenzaloReply invocation in progress
    sendLog,              \* every chunk / media item the loop has come to
    sentReply,            \* let sentReply = false (monitor.ts, per turn)
    hadDispatchError,     \* let hadDispatchError = false (monitor.ts, per turn)
    turn,                 \* the rest of processMessage's reply dispatch: the
                          \* failure-notice setting, hadTypingError, the notices sent
    \* ---- Part E: handleAction (channel.ts) -------------------------------
    actions,              \* account.config.actions
    openzaloUndoRefCache, \* the account's OpenzaloUndoRef list, newest first
    now,                  \* Date.now() as the message actions see it
    sentTo,               \* the send actions that succeeded: thread, time, id
    lastAction,           \* observation of the last handleAction call
    actionCount,          \* handleAction calls so far (bounded)
    \* ---- Part F: the listener of monitorOpenzaloProvider (monitor.ts) ----
    stopped,              \* stop() has been called
    aborted,              \* abortSignal.aborted
    proc,                 \* the listener process the monitor holds (0 = null)
    restartTimer,         \* restartTimer holds a timer (is not null)
    timers,               \* the restart timers set and neither fired nor cleared
    started,              \* startListener() has had its first call
    listeners,            \* every startOpenzcaListener call, in order
    restartLog,           \* the restarts scheduled: delay and cause
    runningResolved,      \* runningPromise is resolved
    crashed,              \* an exception has escaped a handler
    terminations,         \* terminations that happened while neither stopped
                          \* nor aborted
    \* ---- Part H: single steps of processMessage (monitor.ts) -------------
    groupGate,            \* a group message at the group policy step
    historyFetch,         \* a group turn at the recent-history fetch
    \* ---- Part I: the in-process client (types.ts, ZcaClient) -------------
    client,               \* the fields of one ZcaClient, its owner's position
                          \* and the handleReconnect calls in progress
    \* ---- Part J: one transport command (openzca.ts) ----------------------
    command               \* the call, its child process, timers and promise

dedupeVars ==
    << clock, inflightBySignature, inflightByTicket, recentBySignature,
       nextTicketId, tickets, steps, lastCall, heldSince, owner, sentAt, executing >>

inboundVars ==
    << account, tasks, humanPassSessions, mentionDetectionFailureWarnings,
       sessionLog >>

handlerVars == << turns, pendingGroupHistory >>

deliveryVars ==
    << textChunkLimit, replies, call, sendLog, sentReply, hadDispatchError >>

\* the variables of the parts that follow the delivery loop
actionVars ==
    << actions, openzaloUndoRefCache, now, sentTo, lastAction, actionCount >>

listenerVars ==
    << stopped, aborted, proc, restartTimer, timers, started, listeners,
       restartLog, runningResolved, crashed, terminations >>

stepVars == << groupGate, historyFetch, client, command >>

extraVars == << actionVars, listenerVars, stepVars >>

laterVars == << turn, extraVars >>

\* what the dedupe guard does not touch
outsideDedupe == << inboundVars, pairingRequests, handlerVars, deliveryVars, laterVars >>

\* what processMessage does not touch
outsideMonitor == << dedupeVars, handlerVars, deliveryVars, laterVars >>

vars ==
    << dedupeVars, inboundVars, pairingRequests, handlerVars, deliveryVars, laterVars >>

----------------------------------------------------------------------------
(* Bounds of the model *)

MaxSteps == 5

MaxMessages == 2

MaxTurns == 3

\* reply payloads delivered in one turn
MaxReplies == 2

\* handleAction calls in one run
MaxActions == 2

\* listeners started in one run of the monitor
MaxListeners == 3

\* cacheUndoRef and findCachedUndoRef calls followed in one run of the cache
MaxCacheCalls == 3

\* messages that arrive in the lane of one group
MaxLaneMessages == 3

\* onReconnect callbacks counted in one run of the client
MaxReconnects == 2

(* Program constants *)

OPENZALO_OUTBOUND_RECENT_TTL_MS == 15000

MAX_OPENZALO_OUTBOUND_RECENT_SIGNATURES == 5000

OPENZALO_TEXT_LIMIT == 2000

OPENZALO_UNDO_REF_MAX_AGE_MS == 1800000

OPENZALO_UNDO_REF_MAX_PER_ACCOUNT == 40

\* the delay of the restart timer (ms)
RestartDelayMs == 5000

\* the longest body that counts as short (characters)
ShortBodyMax == 40

\* the ceiling of the widened history window
AdaptiveHistoryCeiling == 50

\* the ceiling of any history window
HistoryLimitMax == 200

\* the chunk limit of inbound.ts when textChunkLimit is not configured
DefaultTextChunkLimit == 1800

----------------------------------------------------------------------------
(* Strings as run sequences *)

Run(c, n) == [c |-> c, n |-> n]

Str1(c) == << Run(c, 1) >>

EmptyStr == << >>

RECURSIVE StrLen(_)
StrLen(s) == IF s = << >> THEN 0 ELSE Head(s).n + StrLen(Tail(s))

\* a + b
Cat(a, b) ==
    IF a = << >> THEN b
    ELSE IF b = << >> THEN a
    ELSE IF a[Len(a)].c = b[1].c
         THEN SubSeq(a, 1, Len(a) - 1)
                 \o << Run(b[1].c, a[Len(a)].n + b[1].n) >>
                 \o Tail(b)
         ELSE a \o b

IsSpace(c) == c = " "

RECURSIVE TrimStart(_)
TrimStart(s) ==
    IF s = << >> THEN s
    ELSE IF IsSpace(Head(s).c) THEN TrimStart(Tail(s)) ELSE s

RECURSIVE TrimEnd(_)
TrimEnd(s) ==
    IF s = << >> THEN s
    ELSE IF IsSpace(s[Len(s)].c) THEN TrimEnd(SubSeq(s, 1, Len(s) - 1)) ELSE s

\* String.prototype.trim
Trim(s) == TrimEnd(TrimStart(s))

\* s.slice(0, k)
RECURSIVE SliceTo(_, _)
SliceTo(s, k) ==
    IF s = << >> \/ k <= 0 THEN << >>
    ELSE IF Head(s).n >= k THEN << Run(Head(s).c, k) >>
    ELSE << Head(s) >> \o SliceTo(Tail(s), k - Head(s).n)

\* s.replace(/\s+/g, " ")
RECURSIVE CollapseSpaces(_)
CollapseSpaces(s) ==
    IF s = << >> THEN s
    ELSE IF IsSpace(Head(s).c)
         THEN << Run(" ", 1) >> \o CollapseSpaces(Tail(s))
         ELSE << Head(s) >> \o CollapseSpaces(Tail(s))

DigitChars == << "0", "1", "2", "3", "4", "5", "6", "7", "8", "9" >>

\* String(n) for n >= 0
RECURSIVE DecStr(_)
DecStr(n) ==
    LET d == Str1(DigitChars[(n % 10) + 1])
    IN  IF n < 10 THEN d ELSE Cat(DecStr(n \div 10), d)

\* optional values (`x?: T`)
Some(v) == [def |-> TRUE, v |-> v]

NoStr == [def |-> FALSE, v |-> EmptyStr]

NoNum == [def |-> FALSE, v |-> 0]

\* value ?? ""
OrEmpty(o) == IF o.def THEN o.v ELSE EmptyStr

----------------------------------------------------------------------------
(* Part A: outbound-dedupe.ts *)

US == Str1("US")

\* normalizeIdentity(value) = (value ?? "").trim()
normalizeIdentity(o) == Trim(OrEmpty(o))

\* String(Math.max(1, Math.floor(sequence))) for a finite number, else "1"
\* (sequence values are drawn from the integers, where floor is the identity)
normalizeSequence(seq) ==
    IF seq.def THEN DecStr(IF seq.v > 1 THEN seq.v ELSE 1) ELSE DecStr(1)

\* normalizeChunk of the earlier outbound-dedupe.ts: truncates to 1024 chars
normalizeChunk(o) == SliceTo(Trim(CollapseSpaces(OrEmpty(o))), 1024)

\* the bytes fed to the hash by a buildSignature that truncates the text
\* the way the earlier normalizeChunk did
signatureInputTruncated(params) ==
    LET accountId == normalizeIdentity(Some(params.accountId))
        sk == normalizeIdentity(params.sessionKey)
        sessionKey == IF sk = EmptyStr THEN Str1("-") ELSE sk
        target == normalizeIdentity(Some(params.target))
    IN  Cat(accountId, Cat(US, Cat(sessionKey, Cat(US, Cat(target, Cat(US,
        Cat(Str1(params.kind), Cat(US, Cat(normalizeSequence(params.sequence),
        Cat(US, Cat(normalizeChunk(params.text), Cat(US,
        OrEmpty(params.mediaRef)))))))))))))

\* the bytes fed to the hash by a buildSignature without the sequence
\* (the field list of the earlier buildSignature)
signatureInputNoSequence(params) ==
    LET accountId == normalizeIdentity(Some(params.accountId))
        sk == normalizeIdentity(params.sessionKey)
        sessionKey == IF sk = EmptyStr THEN Str1("-") ELSE sk
        target == normalizeIdentity(Some(params.target))
    IN  Cat(accountId, Cat(US, Cat(sessionKey, Cat(US, Cat(target, Cat(US,
        Cat(Str1(params.kind), Cat(US, Cat(OrEmpty(params.text), Cat(US,
        OrEmpty(params.mediaRef)))))))))))

\* the bytes fed to the hash: the fields joined by U+001F
signatureInput(params) ==
    LET accountId == normalizeIdentity(Some(params.accountId))
        sk == normalizeIdentity(params.sessionKey)
        sessionKey == IF sk = EmptyStr THEN Str1("-") ELSE sk
        target == normalizeIdentity(Some(params.target))
        sequence == normalizeSequence(params.sequence)
    IN  Cat(accountId, Cat(US, Cat(sessionKey, Cat(US, Cat(target, Cat(US,
        Cat(Str1(params.kind), Cat(US, Cat(sequence, Cat(US,
        Cat(OrEmpty(params.text), Cat(US, OrEmpty(params.mediaRef)))))))))))))

----------------------------------------------------------------------------
(* Inputs of the guard *)

Main == Str1("m")

LongPrefix == << Run("a", 1500) >>

TextLongFirst == Cat(LongPrefix, Str1("f"))

TextLongSecond == Cat(LongPrefix, Str1("s"))

BaseParams ==
    [ accountId |-> Main,
      sessionKey |-> Some(Str1("k")),
      target |-> Str1("u"),
      kind |-> "text",
      text |-> Some(TextLongFirst),
      mediaRef |-> NoStr,
      sequence |-> Some(1) ]

\* the payloads offered to acquire: a long chunk with sequence 1, the same
\* with sequence 2 and with sequence 0, and a second long chunk, without a
\* sequence, that shares its 1500-character prefix with the first
Payloads ==
    << BaseParams,
       [BaseParams EXCEPT !.sequence = Some(2)],
       [BaseParams EXCEPT !.sequence = Some(0)],
       [BaseParams EXCEPT !.text = Some(TextLongSecond), !.sequence = NoNum] >>

PayloadIds == 1..Len(Payloads)

RECURSIVE SetToSeq(_)
SetToSeq(S) ==
    IF S = {} THEN << >>
    ELSE LET x == CHOOSE y \in S : TRUE
         IN  << x >> \o SetToSeq(S \ {x})

\* s.slice(k)
RECURSIVE SliceFrom(_, _)
SliceFrom(s, k) ==
    IF s = << >> \/ k <= 0 THEN s
    ELSE IF Head(s).n > k THEN << Run(Head(s).c, Head(s).n - k) >> \o Tail(s)
    ELSE SliceFrom(Tail(s), k - Head(s).n)

\* core.channel.text.chunkMarkdownText(text, limit) on a text that offers no
\* whitespace, newline or markdown fence to break at: pieces of `limit`
\* characters, the rest in the last piece
RECURSIVE chunkText(_, _)
chunkText(text, limit) ==
    IF text = << >> THEN << >>
    ELSE IF StrLen(text) <= limit THEN << text >>
    ELSE << SliceTo(text, limit) >> \o chunkText(SliceFrom(text, limit), limit)

\* the configured account.config.textChunkLimit: unset, the provider
\* maximum, and a value above it
TextChunkLimits == { NoNum, Some(OPENZALO_TEXT_LIMIT), Some(5000) }

\* ReplyPayload values handed to deliver: a 5000-character text, a short
\* text, and two media items (the same file twice) with a caption
ReplyPayloads ==
    { [ text |-> << Run("x", 5000) >>, mediaUrls |-> << >> ],
      [ text |-> Str1("o"), mediaUrls |-> << >> ],
      [ text |-> Str1("o"), mediaUrls |-> << Str1("f"), Str1("f") >> ] }

\* the payloads of one turn, in the order the dispatcher delivers them
ReplyTurns ==
    UNION { [1..n -> ReplyPayloads] : n \in 1..MaxReplies }

\* every byte string a delivery can feed to the hash
DeliveryHashInputs ==
    LET texts == { EmptyStr } \cup
                 UNION { { c[i] : i \in DOMAIN c } :
                         c \in { chunkText(p.text, l) :
                                  p \in ReplyPayloads,
                                  l \in { DefaultTextChunkLimit,
                                           OPENZALO_TEXT_LIMIT, 5000 } } }
        refs == { NoStr } \cup
                UNION { { Some(p.mediaUrls[i]) : i \in DOMAIN p.mediaUrls } :
                        p \in ReplyPayloads }
    IN  { signatureInput([BaseParams EXCEPT !.kind = k, !.text = Some(t),
                                            !.mediaRef = m, !.sequence = Some(n)]) :
          k \in {"text", "media"}, t \in texts, m \in refs, n \in 1..3 }

\* every byte string the model ever hashes
HashInputs ==
    SetToSeq(DeliveryHashInputs
             \cup { signatureInput(Payloads[i]) : i \in PayloadIds }
             \cup { signatureInputNoSequence(Payloads[i]) : i \in PayloadIds }
             \cup { signatureInputTruncated(Payloads[i]) : i \in PayloadIds })

\* createHash("sha256").update(...).digest("hex"): a collision-free digest,
\* modelled as the position of the input among the inputs ever hashed
sha256(input) == CHOOSE i \in 1..Len(HashInputs) : HashInputs[i] = input

\* buildSignature with the earlier normalizeChunk applied to the text
buildSignatureTruncated(params) == sha256(signatureInputTruncated(params))

\* buildSignature that leaves the sequence out of the hash
buildSignatureNoSequence(params) == sha256(signatureInputNoSequence(params))

buildSignature(params) == sha256(signatureInput(params))

----------------------------------------------------------------------------
(* The guard's maps *)

MapHas(m, k) == k \in DOMAIN m

MapGet(m, k, dflt) == IF k \in DOMAIN m THEN m[k] ELSE dflt

MapSet(m, k, v) == [x \in (DOMAIN m) \cup {k} |-> IF x = k THEN v ELSE m[x]]

MapDelete(m, k) == [x \in (DOMAIN m) \ {k} |-> m[x]]

MapDeleteAll(m, ks) == [x \in (DOMAIN m) \ ks |-> m[x]]

EmptyMap == [x \in {} |-> 0]

\* recentBySignature keeps insertion order: a sequence of [sig, expiresAt]
RecentKeys(recent) == { recent[i].sig : i \in 1..Len(recent) }

RecentGet(recent, sig) ==
    LET hits == { i \in 1..Len(recent) : recent[i].sig = sig }
    IN  IF hits = {} THEN -1 ELSE recent[CHOOSE i \in hits : TRUE].expiresAt

RecentSet(recent, sig, expiresAt) ==
    IF sig \in RecentKeys(recent)
    THEN [i \in 1..Len(recent) |->
             IF recent[i].sig = sig
             THEN [sig |-> sig, expiresAt |-> expiresAt]
             ELSE recent[i]]
    ELSE Append(recent, [sig |-> sig, expiresAt |-> expiresAt])

RECURSIVE evictRecentOverflow(_)
evictRecentOverflow(recent) ==
    IF Len(recent) > MAX_OPENZALO_OUTBOUND_RECENT_SIGNATURES
    THEN evictRecentOverflow(Tail(recent))
    ELSE recent

RECURSIVE FilterRecent(_, _)
FilterRecent(recent, nowMs) ==
    IF recent = << >> THEN << >>
    ELSE IF Head(recent).expiresAt <= nowMs
         THEN FilterRecent(Tail(recent), nowMs)
         ELSE << Head(recent) >> \o FilterRecent(Tail(recent), nowMs)

\* The guard's state as one record
DedupeState ==
    [ recent |-> recentBySignature,
      bySig |-> inflightBySignature,
      byTicket |-> inflightByTicket,
      nextTicketId |-> nextTicketId ]

\* pruneExpired without the inflight safety net
pruneExpiredNoSweep(st, nowMs) ==
    [st EXCEPT !.recent = FilterRecent(st.recent, nowMs)]

\* pruneExpired with a stale cutoff of 3 x TTL
pruneExpiredEarly(st, nowMs) ==
    LET staleCutoff == nowMs - OPENZALO_OUTBOUND_RECENT_TTL_MS * 3
        stale == { s \in DOMAIN st.bySig : st.bySig[s].createdAt < staleCutoff }
    IN  [st EXCEPT
            !.recent = FilterRecent(st.recent, nowMs),
            !.bySig = MapDeleteAll(st.bySig, stale),
            !.byTicket = MapDeleteAll(st.byTicket,
                             { st.bySig[s].ticketId : s \in stale })]

pruneExpired(st, nowMs) ==
    LET staleCutoff == nowMs - OPENZALO_OUTBOUND_RECENT_TTL_MS * 4
        stale == { s \in DOMAIN st.bySig : st.bySig[s].createdAt < staleCutoff }
    IN  [st EXCEPT
            !.recent = FilterRecent(st.recent, nowMs),
            !.bySig = MapDeleteAll(st.bySig, stale),
            !.byTicket = MapDeleteAll(st.byTicket,
                             { st.bySig[s].ticketId : s \in stale })]

NoTicket == [id |-> 0, signature |-> 0]

\* an acquire that does not look at the in-flight entries
acquireIgnoringInflight(st0, params, nowMs) ==
    LET st == pruneExpired(st0, nowMs)
        signature == buildSignature(params)
        recentUntil == RecentGet(st.recent, signature)
        id == st.nextTicketId + 1
        entry == [ticketId |-> id, signature |-> signature, createdAt |-> nowMs]
    IN  IF signature \in RecentKeys(st.recent) /\ recentUntil > nowMs
        THEN [st |-> st, acquired |-> FALSE, reason |-> "recent", ticket |-> NoTicket]
        ELSE [st |-> [st EXCEPT !.nextTicketId = id,
                                !.bySig = MapSet(st.bySig, signature, entry),
                                !.byTicket = MapSet(st.byTicket, id, entry)],
              acquired |-> TRUE, reason |-> "acquired",
              ticket |-> [id |-> id, signature |-> signature]]

\* acquireOpenzaloOutboundDedupeSlot(params, nowMs): the new state and the result
acquireOpenzaloOutboundDedupeSlot(st0, params, nowMs) ==
    LET st == pruneExpired(st0, nowMs)
        signature == buildSignature(params)
        recentUntil == RecentGet(st.recent, signature)
        id == st.nextTicketId + 1
        entry == [ticketId |-> id, signature |-> signature, createdAt |-> nowMs]
    IN  IF signature \in RecentKeys(st.recent) /\ recentUntil > nowMs
        THEN [st |-> st, acquired |-> FALSE, reason |-> "recent", ticket |-> NoTicket]
        ELSE IF MapHas(st.bySig, signature)
        THEN [st |-> st, acquired |-> FALSE, reason |-> "inflight", ticket |-> NoTicket]
        ELSE [st |-> [st EXCEPT !.nextTicketId = id,
                                !.bySig = MapSet(st.bySig, signature, entry),
                                !.byTicket = MapSet(st.byTicket, id, entry)],
              acquired |-> TRUE, reason |-> "acquired",
              ticket |-> [id |-> id, signature |-> signature]]

\* a release that never opens the recent window
releaseNeverRecent(st, ticket, sent, nowMs) ==
    IF ~MapHas(st.byTicket, ticket.id)
       \/ st.byTicket[ticket.id].signature # ticket.signature
    THEN st
    ELSE LET entry == st.byTicket[ticket.id]
         IN  [st EXCEPT
                !.byTicket = MapDelete(st.byTicket, entry.ticketId),
                !.bySig = MapDelete(st.bySig, entry.signature)]

\* a release that opens the recent window whatever `sent` is
releaseAlwaysRecent(st, ticket, sent, nowMs) ==
    IF ~MapHas(st.byTicket, ticket.id)
       \/ st.byTicket[ticket.id].signature # ticket.signature
    THEN st
    ELSE LET entry == st.byTicket[ticket.id]
         IN  [st EXCEPT
                !.byTicket = MapDelete(st.byTicket, entry.ticketId),
                !.bySig = MapDelete(st.bySig, entry.signature),
                !.recent = evictRecentOverflow(RecentSet(st.recent, entry.signature,
                               nowMs + OPENZALO_OUTBOUND_RECENT_TTL_MS))]

\* a release that frees whatever entry holds the ticket's signature
releaseBySignature(st, ticket, sent, nowMs) ==
    IF ~MapHas(st.bySig, ticket.signature)
    THEN st
    ELSE LET entry == st.bySig[ticket.signature]
         IN  [st EXCEPT
                !.byTicket = MapDelete(st.byTicket, entry.ticketId),
                !.bySig = MapDelete(st.bySig, entry.signature),
                !.recent =
                    IF sent
                    THEN evictRecentOverflow(RecentSet(st.recent, entry.signature,
                             nowMs + OPENZALO_OUTBOUND_RECENT_TTL_MS))
                    ELSE st.recent]

\* releaseOpenzaloOutboundDedupeSlot({ticket, sent, nowMs})
releaseOpenzaloOutboundDedupeSlot(st, ticket, sent, nowMs) ==
    IF ~MapHas(st.byTicket, ticket.id)
       \/ st.byTicket[ticket.id].signature # ticket.signature
    THEN st
    ELSE LET entry == st.byTicket[ticket.id]
         IN  [st EXCEPT
                !.byTicket = MapDelete(st.byTicket, entry.ticketId),
                !.bySig = MapDelete(st.bySig, entry.signature),
                !.recent =
                    IF sent
                    THEN evictRecentOverflow(RecentSet(st.recent, entry.signature,
                             nowMs + OPENZALO_OUTBOUND_RECENT_TTL_MS))
                    ELSE st.recent]

----------------------------------------------------------------------------
(* The guard's callers *)

\* clock advances offered between calls (ms)
Deltas == {1, 14999, 60000}

NoCall ==
    [ op |-> "none", payload |-> 0, sig |-> 0, res |-> "none",
      heldSince |-> NoNum, sentAt |-> NoNum, ownerBefore |-> 0,
      swept |-> {},
      ticket |-> NoTicket, sent |-> FALSE, holder |-> FALSE ]

DedupeInit ==
    /\ clock = 0
    /\ inflightBySignature = EmptyMap
    /\ inflightByTicket = EmptyMap
    /\ recentBySignature = << >>
    /\ nextTicketId = 0
    /\ tickets = {}
    /\ steps = 0
    /\ lastCall = NoCall
    /\ heldSince = EmptyMap
    /\ owner = EmptyMap
    /\ sentAt = EmptyMap
    /\ executing = {}

\* time passes between two calls
Tick ==
    /\ steps < MaxSteps
    /\ \E d \in Deltas : clock' = clock + d
    /\ steps' = steps + 1
    /\ lastCall' = [NoCall EXCEPT !.op = "tick"]
    /\ UNCHANGED outsideDedupe
    /\ UNCHANGED << inflightBySignature, inflightByTicket, recentBySignature,
                    nextTicketId, tickets, heldSince, owner, sentAt, executing >>

\* a caller invokes acquireOpenzaloOutboundDedupeSlot(params, nowMs = clock)
Acquire ==
    \E i \in PayloadIds :
        LET r == acquireOpenzaloOutboundDedupeSlot(DedupeState, Payloads[i], clock)
            sig == buildSignature(Payloads[i])
            gone == { inflightByTicket[t] :
                          t \in DOMAIN inflightByTicket \ DOMAIN r.st.byTicket }
        IN  /\ steps < MaxSteps
            /\ steps' = steps + 1
            /\ recentBySignature' = r.st.recent
            /\ inflightBySignature' = r.st.bySig
            /\ inflightByTicket' = r.st.byTicket
            /\ nextTicketId' = r.st.nextTicketId
            /\ tickets' = IF r.acquired THEN tickets \cup {r.ticket} ELSE tickets
            /\ lastCall' =
                 [ NoCall EXCEPT
                   !.op = "acquire", !.payload = i, !.sig = sig, !.res = r.reason,
                   !.heldSince = MapGet(heldSince, sig, NoNum),
                   !.sentAt = MapGet(sentAt, sig, NoNum),
                   !.ownerBefore = MapGet(owner, sig, 0),
                   !.swept = { [id |-> e.ticketId, age |-> clock - e.createdAt] :
                                   e \in gone } ]
            /\ heldSince' = IF r.acquired THEN MapSet(heldSince, sig, Some(clock))
                            ELSE heldSince
            /\ owner' = IF r.acquired THEN MapSet(owner, sig, i) ELSE owner
            /\ sentAt' = IF r.acquired THEN MapDelete(sentAt, sig) ELSE sentAt
            /\ executing' =
                   IF r.acquired
                   THEN executing \cup { [ id |-> r.ticket.id, signature |-> sig,
                                           since |-> clock ] }
                   ELSE executing
            /\ UNCHANGED clock
            /\ UNCHANGED outsideDedupe

\* a caller invokes releaseOpenzaloOutboundDedupeSlot on a ticket it was given
Release ==
    \E ticket \in tickets, sent \in BOOLEAN :
        LET st == releaseOpenzaloOutboundDedupeSlot(DedupeState, ticket, sent, clock)
            holder == /\ MapHas(inflightByTicket, ticket.id)
                      /\ inflightByTicket[ticket.id].signature = ticket.signature
        IN  /\ steps < MaxSteps
            /\ steps' = steps + 1
            /\ recentBySignature' = st.recent
            /\ inflightBySignature' = st.bySig
            /\ inflightByTicket' = st.byTicket
            /\ nextTicketId' = st.nextTicketId
            /\ lastCall' = [ NoCall EXCEPT
                             !.op = "release", !.sig = ticket.signature,
                             !.ticket = ticket, !.sent = sent, !.holder = holder ]
            /\ heldSince' = MapDelete(heldSince, ticket.signature)
            /\ sentAt' = IF holder /\ sent
                         THEN MapSet(sentAt, ticket.signature, Some(clock))
                         ELSE sentAt
            /\ executing' = { e \in executing : e.id # ticket.id }
            /\ UNCHANGED << clock, tickets, owner >>
            /\ UNCHANGED outsideDedupe

----------------------------------------------------------------------------
(* Part B: monitor.ts, the listener callback and processMessage *)

\* the one group conversation the messages arrive in; it also stands for
\* the conversation's route.sessionKey
ChatId == "g1"

\* account.config.allowFrom
AllowFrom == {"owner"}

\* config.commands?.useAccessGroups !== false
useAccessGroups == TRUE

\* the accounts a monitor may be started with
Accounts ==
    { a \in [ groupPolicy : {"open", "allowlist", "disabled"},
              groups : {{}, {ChatId}},
              requireMention : BOOLEAN,
              botUserId : {"bot", "undefined"},
              groupMentionDetectionFailure : {"deny", "allow-with-warning", "allow"},
              historyLimit : {0, 6} ] :
        /\ a.groupPolicy # "allowlist" => a.groups = {}
        /\ (a.groupPolicy = "disabled" \/ a.groupPolicy = "allowlist")
              => (/\ a.requireMention /\ a.botUserId = "bot"
                  /\ a.groupMentionDetectionFailure = "deny" /\ a.historyLimit = 6)
        /\ ~(a.requireMention /\ a.botUserId = "undefined")
              => a.groupMentionDetectionFailure = "deny"
        /\ a.requireMention => a.historyLimit = 6 }

\* the inbound group messages the listener may deliver (all with a body, so
\* hasInboundContext holds)
Messages ==
    { [sender |-> "guest", body |-> "hello", mentioned |-> FALSE, isGroup |-> TRUE],
      [sender |-> "guest", body |-> "hello", mentioned |-> TRUE, isGroup |-> TRUE],
      [sender |-> "owner", body |-> "/new", mentioned |-> FALSE, isGroup |-> TRUE],
      [sender |-> "guest", body |-> "/new", mentioned |-> FALSE, isGroup |-> TRUE],
      [sender |-> "owner", body |-> "human pass on", mentioned |-> FALSE, isGroup |-> TRUE],
      [sender |-> "guest", body |-> "human pass on", mentioned |-> FALSE, isGroup |-> TRUE],
      [sender |-> "owner", body |-> "human pass off", mentioned |-> FALSE, isGroup |-> TRUE] }

isSenderAllowed(senderId, allowFrom) ==
    "*" \in allowFrom \/ senderId \in allowFrom

isGroupAllowed(groupId, groups) ==
    IF groups = {} THEN FALSE
    ELSE groupId \in groups \/ "*" \in groups

parseHumanPassCommand(raw) ==
    IF raw = "human pass on" THEN "on"
    ELSE IF raw = "human pass off" THEN "off"
    ELSE "null"

\* core.channel.commands.isControlCommandMessage: the built-in commands
isControlCommandMessage(body) == body = "/new"

\* core.channel.commands.shouldComputeCommandAuthorized
shouldComputeCommandAuthorized(body) == isControlCommandMessage(body)

\* core.channel.commands.resolveCommandAuthorizedFromAuthorizers, one authorizer
resolveCommandAuthorizedFromAuthorizers(accessGroups, configured, allowed) ==
    IF ~accessGroups THEN TRUE ELSE configured /\ allowed

\* a mention bypass that is never granted
shouldBypassMentionNever(isControlCommand, shouldRequireMention, canRunControlCommand) ==
    FALSE

\* const shouldBypassMention = ...
shouldBypassMention(isControlCommand, shouldRequireMention, canRunControlCommand) ==
    isControlCommand /\ shouldRequireMention /\ canRunControlCommand

\* a session store that records nothing
recordNothing(log, id) == log

\* core.channel.session.recordInboundSession: the message joins the session
recordInboundSession(log, id) == Append(log, id)

\* a human pass check that never finds the flag
humanPassNeverEnabled(humanPass, humanPassKey) == FALSE

\* humanPassSessions?.has(humanPassKey)
humanPassEnabled(humanPass, humanPassKey) == humanPassKey \in humanPass

\* a toggle that never clears the flag
toggleHumanPassOnly(humanPass, humanPassKey, humanPassCommand) ==
    humanPass \cup {humanPassKey}

\* if (enableHumanPass) humanPassSessions.add(key) else humanPassSessions.delete(key)
toggleHumanPass(humanPass, humanPassKey, humanPassCommand) ==
    IF humanPassCommand = "on" THEN humanPass \cup {humanPassKey}
                               ELSE humanPass \ {humanPassKey}

\* the values processMessage derives from a group message before its first await
resolveFlags(acct, message) ==
    LET canDetectMentionByUid == message.isGroup /\ acct.botUserId # "undefined"
        shouldRequireMention == message.isGroup /\ acct.requireMention
        wasMentionedByUid == canDetectMentionByUid /\ message.mentioned
        senderAllowedForCommands == isSenderAllowed(message.sender, AllowFrom)
        commandAuthorized ==
            IF shouldComputeCommandAuthorized(message.body)
            THEN IF resolveCommandAuthorizedFromAuthorizers(
                        useAccessGroups, AllowFrom # {}, senderAllowedForCommands)
                 THEN "true" ELSE "false"
            ELSE "undefined"
        humanPassCommand == parseHumanPassCommand(message.body)
        isControlCommand ==
            isControlCommandMessage(message.body) \/ humanPassCommand # "null"
        canManageHumanPass == commandAuthorized = "true" \/ senderAllowedForCommands
        canRunControlCommand ==
            commandAuthorized = "true"
                \/ (humanPassCommand # "null" /\ canManageHumanPass)
        bypass == shouldBypassMention(isControlCommand, shouldRequireMention,
                                      canRunControlCommand)
    IN  [ humanPassCommand |-> humanPassCommand,
          isControlCommand |-> isControlCommand,
          canManageHumanPass |-> canManageHumanPass,
          canRunControlCommand |-> canRunControlCommand,
          shouldRequireMention |-> shouldRequireMention,
          shouldBypassMention |-> bypass,
          canDetectMention |-> canDetectMentionByUid,
          effectiveWasMentioned |-> bypass \/ wasMentionedByUid ]

\* route.sessionKey: one session per group and per direct peer
sessionKey(message) == IF message.isGroup THEN ChatId ELSE message.sender

\* the group policy gate at the head of processMessage
groupPolicyDrops(acct) ==
    \/ acct.groupPolicy = "disabled"
    \/ acct.groupPolicy = "allowlist" /\ ~isGroupAllowed(ChatId, acct.groups)

\* processMessage from the return of recordInboundSession to its next await
\* or return: [pc, outcome, humanPass, warnings]
gatesAfterRecord(acct, message, humanPass, warnings) ==
    LET f == resolveFlags(acct, message)
        mode == acct.groupMentionDetectionFailure
        warningKey == << ChatId, mode >>
        stay(pc, outcome) ==
            [pc |-> pc, outcome |-> outcome, humanPass |-> humanPass,
             warnings |-> warnings]
        humanPassKey == sessionKey(message)
        proceed == stay(IF message.isGroup /\ acct.historyLimit > 0
                        THEN "history" ELSE "dispatch", "pass")
    IN  IF message.isGroup /\ f.isControlCommand /\ ~f.canRunControlCommand
        THEN stay("done", "dropUnauthorizedCommand")
        ELSE IF f.humanPassCommand # "null"
        THEN IF ~f.canManageHumanPass
             THEN stay("done", "humanPassDenied")
             ELSE [pc |-> "notice", outcome |-> "humanPassSet",
                   humanPass |-> toggleHumanPass(humanPass, humanPassKey,
                                                 f.humanPassCommand),
                   warnings |-> warnings]
        ELSE IF humanPassEnabled(humanPass, humanPassKey)
        THEN stay("done", "humanPassSkip")
        ELSE IF ~f.shouldRequireMention \/ f.shouldBypassMention
        THEN proceed
        ELSE IF f.canDetectMention
        THEN IF ~f.effectiveWasMentioned
             THEN stay("done", "dropNotMentioned")
             ELSE proceed
        ELSE IF warningKey \in warnings
        THEN proceed
        ELSE IF mode = "allow-with-warning"
        THEN [proceed EXCEPT !.warnings = warnings \cup {warningKey}]
        ELSE IF mode = "deny"
        THEN [pc |-> "done", outcome |-> "dropDetectionUnavailable",
              humanPass |-> humanPass, warnings |-> warnings \cup {warningKey}]
        ELSE proceed

DefaultAccount ==
    [ groupPolicy |-> "open", groups |-> {}, requireMention |-> TRUE,
      botUserId |-> "bot", groupMentionDetectionFailure |-> "deny",
      historyLimit |-> 6 ]

\* the monitor before any account is started
InboundIdle ==
    /\ account = DefaultAccount
    /\ tasks = << >>
    /\ humanPassSessions = {}
    /\ mentionDetectionFailureWarnings = {}
    /\ sessionLog = << >>
    /\ pairingRequests = {}
    /\ turns = << >>
    /\ pendingGroupHistory = << >>

\* monitorOpenzaloProvider has resolved the account and started the listener
InboundInit ==
    /\ account \in Accounts
    /\ tasks = << >>
    /\ humanPassSessions = {}
    /\ mentionDetectionFailureWarnings = {}
    /\ sessionLog = << >>
    /\ pairingRequests = {}
    /\ turns = << >>
    /\ pendingGroupHistory = << >>

\* the accounts of the human pass conversations: an open group whose bot
\* user id was resolved
HumanPassAccounts ==
    { a \in Accounts : a.groupPolicy = "open" /\ a.botUserId = "bot" }

\* the messages of the human pass conversations
HumanPassMessages ==
    { m \in Messages : m.mentioned \/ parseHumanPassCommand(m.body) # "null" }

\* monitorOpenzaloProvider has started the listener of such an account
HumanPassInit ==
    /\ account \in HumanPassAccounts
    /\ tasks = << >>
    /\ humanPassSessions = {}
    /\ mentionDetectionFailureWarnings = {}
    /\ sessionLog = << >>
    /\ pairingRequests = {}
    /\ turns = << >>
    /\ pendingGroupHistory = << >>

\* the listener delivers a message: the onMessage callback starts
\* processMessage, which runs up to its first await (recordInboundSession);
\* at most `limit` messages are delivered, each one out of `inbox`
ReceiveFrom(inbox, limit) ==
    /\ Len(tasks) < limit
    /\ \E message \in inbox :
        LET id == Len(tasks) + 1
            dropped == groupPolicyDrops(account)
        IN  /\ tasks' = Append(tasks,
                 [ message |-> message,
                   pc |-> IF dropped THEN "done" ELSE "record",
                   outcome |-> IF dropped THEN "dropGroupPolicy" ELSE "none",
                   humanPassSeen |-> FALSE,
                   sends |-> {} ])
            /\ sessionLog' = IF dropped THEN sessionLog
                                        ELSE recordInboundSession(sessionLog, id)
    /\ UNCHANGED << account, humanPassSessions, mentionDetectionFailureWarnings >>
    /\ UNCHANGED << outsideMonitor, pairingRequests >>

Receive == ReceiveFrom(Messages, MaxMessages)

\* the same callback in a conversation of up to MaxTurns messages, which are
\* human pass commands or mention the bot
ReceiveTurn == ReceiveFrom(HumanPassMessages, MaxTurns)

\* recordInboundSession has resolved: the gates run up to the next await
AfterRecord ==
    /\ \E i \in DOMAIN tasks :
        /\ tasks[i].pc = "record"
        /\ LET g == gatesAfterRecord(account, tasks[i].message, humanPassSessions,
                                     mentionDetectionFailureWarnings)
           IN  /\ tasks' = [tasks EXCEPT ![i].pc = g.pc, ![i].outcome = g.outcome,
                                         ![i].humanPassSeen =
                                             sessionKey(tasks[i].message)
                                                 \in humanPassSessions]
               /\ humanPassSessions' = g.humanPass
               /\ mentionDetectionFailureWarnings' = g.warnings
    /\ UNCHANGED << account, sessionLog >>
    /\ UNCHANGED << outsideMonitor, pairingRequests >>

\* the human pass status message has been sent
NoticeSent ==
    /\ \E i \in DOMAIN tasks :
        /\ tasks[i].pc = "notice"
        /\ tasks' = [tasks EXCEPT ![i].pc = "done",
                                  ![i].sends = @ \cup {"notice"}]
    /\ UNCHANGED << account, humanPassSessions, mentionDetectionFailureWarnings,
                    sessionLog >>
    /\ UNCHANGED << outsideMonitor, pairingRequests >>

\* fetchGroupRecentHistory has resolved: the reply dispatch starts
HistoryLoaded ==
    /\ \E i \in DOMAIN tasks :
        /\ tasks[i].pc = "history"
        /\ tasks' = [tasks EXCEPT ![i].pc = "dispatch"]
    /\ UNCHANGED << account, humanPassSessions, mentionDetectionFailureWarnings,
                    sessionLog >>
    /\ UNCHANGED << outsideMonitor, pairingRequests >>

\* what one reply dispatch may send: the typing indicator (onReplyStart),
\* the reply deliveries, and the failure notice when no reply got through
DispatchSends ==
    { out \in SUBSET {"typing", "reply", "failureNotice"} :
        "reply" \in out => "failureNotice" \notin out }

\* dispatchReplyFromConfig has resolved, all deliveries made, and the failure
\* notice has been sent where it is due
DispatchDone ==
    /\ \E i \in DOMAIN tasks, out \in DispatchSends :
        /\ tasks[i].pc = "dispatch"
        /\ tasks' = [tasks EXCEPT ![i].pc = "done", ![i].outcome = "dispatched",
                                  ![i].sends = @ \cup out]
    /\ UNCHANGED << account, humanPassSessions, mentionDetectionFailureWarnings,
                    sessionLog >>
    /\ UNCHANGED << outsideMonitor, pairingRequests >>

----------------------------------------------------------------------------
(* Part B, direct messages: the DM policy block of processMessage *)

\* account.config of the accounts that receive direct messages
DmAccounts ==
    { [ groupPolicy |-> "open", groups |-> {}, requireMention |-> FALSE,
        botUserId |-> "bot", groupMentionDetectionFailure |-> "deny",
        historyLimit |-> 6, dmPolicy |-> p ] :
        p \in {"pairing", "allowlist", "open", "disabled"} }

\* the direct messages the listener may deliver
DmMessages ==
    { [sender |-> "stranger", body |-> "hello", mentioned |-> FALSE, isGroup |-> FALSE],
      [sender |-> "stranger", body |-> "/new", mentioned |-> FALSE, isGroup |-> FALSE],
      [sender |-> "visitor", body |-> "hello", mentioned |-> FALSE, isGroup |-> FALSE],
      [sender |-> "owner", body |-> "hello", mentioned |-> FALSE, isGroup |-> FALSE],
      [sender |-> "owner", body |-> "human pass on", mentioned |-> FALSE, isGroup |-> FALSE] }

\* core.channel.pairing.readAllowFromStore: no request is approved while the
\* monitor runs
storeAllowFrom == {}

\* whether processMessage awaits readAllowFromStore for the message
readsAllowFromStore(acct, message) ==
    ~message.isGroup
        /\ (acct.dmPolicy # "open" \/ shouldComputeCommandAuthorized(message.body))

\* the DM policy block up to its next await or return: [pc, outcome]
dmPolicyGate(acct, message) ==
    LET allowed == isSenderAllowed(message.sender, AllowFrom \cup storeAllowFrom)
    IN  IF acct.dmPolicy = "disabled"
        THEN [pc |-> "done", outcome |-> "dropDmDisabled"]
        ELSE IF acct.dmPolicy # "open" /\ ~allowed
        THEN IF acct.dmPolicy = "pairing"
             THEN [pc |-> "upsert", outcome |-> "none"]
             ELSE [pc |-> "done", outcome |-> "dropDmUnauthorized"]
        ELSE [pc |-> "record", outcome |-> "none"]

\* core.channel.pairing.upsertPairingRequest: created tells whether the id had
\* no pending request
upsertPairingRequest(requests, id) ==
    [requests |-> requests \cup {id}, created |-> id \notin requests]

\* a pairing reply sent on every request
alwaysSendPairingReply(created) == TRUE

\* if (created) { ... sendMessageOpenzalo(chatId, buildPairingReply(...)) }
shouldSendPairingReply(created) == created

\* monitorOpenzaloProvider has started the listener of an account that
\* receives direct messages
DmInit ==
    /\ account \in DmAccounts
    /\ tasks = << >>
    /\ humanPassSessions = {}
    /\ mentionDetectionFailureWarnings = {}
    /\ sessionLog = << >>
    /\ pairingRequests = {}
    /\ turns = << >>
    /\ pendingGroupHistory = << >>

\* a task that has run the DM policy block with result g
AfterDmPolicy(t, g) == [t EXCEPT !.pc = g.pc, !.outcome = g.outcome]

\* the listener delivers a direct message: processMessage runs up to
\* readAllowFromStore, or where that is skipped through the DM policy block
ReceiveDmFrom(inbox) ==
    /\ Len(tasks) < MaxMessages
    /\ \E message \in inbox :
        LET id == Len(tasks) + 1
            t == [ message |-> message, pc |-> "allowFrom", outcome |-> "none",
                   humanPassSeen |-> FALSE, sends |-> {} ]
            g == dmPolicyGate(account, message)
        IN  IF readsAllowFromStore(account, message)
            THEN /\ tasks' = Append(tasks, t)
                 /\ UNCHANGED sessionLog
            ELSE /\ tasks' = Append(tasks, AfterDmPolicy(t, g))
                 /\ sessionLog' = IF g.pc = "record"
                                  THEN recordInboundSession(sessionLog, id)
                                  ELSE sessionLog
    /\ UNCHANGED << account, humanPassSessions, mentionDetectionFailureWarnings >>
    /\ UNCHANGED << outsideMonitor, pairingRequests >>

ReceiveDm == ReceiveDmFrom(DmMessages)

\* readAllowFromStore has resolved: the DM policy block runs
AllowFromRead ==
    /\ \E i \in DOMAIN tasks :
        /\ tasks[i].pc = "allowFrom"
        /\ LET g == dmPolicyGate(account, tasks[i].message)
           IN  /\ tasks' = [tasks EXCEPT ![i] = AfterDmPolicy(@, g)]
               /\ sessionLog' = IF g.pc = "record"
                                THEN recordInboundSession(sessionLog, i)
                                ELSE sessionLog
    /\ UNCHANGED << account, humanPassSessions, mentionDetectionFailureWarnings >>
    /\ UNCHANGED << outsideMonitor, pairingRequests >>

\* upsertPairingRequest has resolved
PairingUpserted ==
    /\ \E i \in DOMAIN tasks :
        /\ tasks[i].pc = "upsert"
        /\ LET r == upsertPairingRequest(pairingRequests, tasks[i].message.sender)
           IN  /\ pairingRequests' = r.requests
               /\ tasks' = IF shouldSendPairingReply(r.created)
                            THEN [tasks EXCEPT ![i].pc = "pairingReply"]
                            ELSE [tasks EXCEPT ![i].pc = "done",
                                               ![i].outcome = "pairingPending"]
    /\ UNCHANGED << account, humanPassSessions, mentionDetectionFailureWarnings,
                    sessionLog >>
    /\ UNCHANGED outsideMonitor

\* the pairing reply has been handed to sendMessageOpenzalo
PairingReplySent ==
    /\ \E i \in DOMAIN tasks :
        /\ tasks[i].pc = "pairingReply"
        /\ tasks' = [tasks EXCEPT ![i].pc = "done",
                                  ![i].outcome = "pairingIssued",
                                  ![i].sends = @ \cup {"pairing"}]
    /\ UNCHANGED << account, humanPassSessions, mentionDetectionFailureWarnings,
                    sessionLog >>
    /\ UNCHANGED << outsideMonitor, pairingRequests >>

----------------------------------------------------------------------------
(* Part C: inbound.ts, handleOpenzaloInbound with the pending group history *)

\* account.config of the groups handleOpenzaloInbound serves
HandlerAccounts ==
    { [DefaultAccount EXCEPT !.requireMention = r, !.historyLimit = h] :
        r \in BOOLEAN, h \in {0, 6} }

\* the group messages handed to handleOpenzaloInbound
HandlerMessages ==
    { m \in Messages : parseHumanPassCommand(m.body) = "null" }

\* resolveOpenzaloPendingGroupHistoryLimit: Math.max(0, Math.floor(limit))
resolveOpenzaloPendingGroupHistoryLimit(accountHistoryLimit) ==
    IF accountHistoryLimit > 0 THEN accountHistoryLimit ELSE 0

\* appendOpenzaloPendingGroupHistoryEntry; the limit is not reached within
\* the bounds of the model
appendOpenzaloPendingGroupHistoryEntry(history, entry, limit) ==
    Append(history, entry)

\* readOpenzaloPendingGroupHistoryEntries
readOpenzaloPendingGroupHistoryEntries(history) == history

\* clearOpenzaloPendingGroupHistory
clearOpenzaloPendingGroupHistory(history) == << >>

\* resolveControlCommandGate with the owner allow-list as authorizer and
\* text commands enabled
resolveControlCommandGate(message) ==
    LET hasControlCommand == isControlCommandMessage(message.body)
        commandAuthorized ==
            resolveCommandAuthorizedFromAuthorizers(
                useAccessGroups, AllowFrom # {},
                isSenderAllowed(message.sender, AllowFrom))
    IN  [ hasControlCommand |-> hasControlCommand,
          commandAuthorized |-> commandAuthorized,
          shouldBlock |-> hasControlCommand /\ ~commandAuthorized ]

\* a mention gate that stores no withheld message
storesPendingNever(groupHistoryLimit) == FALSE

\* if (groupHistoryKey && groupHistoryLimit > 0): the withheld message is stored
storesPending(groupHistoryLimit) == groupHistoryLimit > 0

\* gates that take only the newest pending entry into the context
handlerGatesNewestOnly(acct, message, id, pending) ==
    LET gate == resolveControlCommandGate(message)
        groupHistoryLimit ==
            resolveOpenzaloPendingGroupHistoryLimit(acct.historyLimit)
        wasMentioned == acct.botUserId # "undefined" /\ message.mentioned
        bypassForCommand == gate.hasControlCommand /\ gate.commandAuthorized
        drop(outcome, stored) ==
            [ pc |-> "done", outcome |-> outcome, stored |-> stored,
              inboundHistory |-> << >>,
              pending |-> IF stored
                          THEN appendOpenzaloPendingGroupHistoryEntry(
                                   pending, id, groupHistoryLimit)
                          ELSE pending ]
    IN  IF gate.shouldBlock
        THEN drop("dropUnauthorizedCommand", FALSE)
        ELSE IF acct.requireMention /\ ~wasMentioned /\ ~bypassForCommand
        THEN drop("dropNotMentioned", storesPending(groupHistoryLimit))
        ELSE [ pc |-> "record", outcome |-> "pass", stored |-> FALSE,
               inboundHistory |->
                   IF groupHistoryLimit > 0
                   THEN IF pending = << >> THEN << >>
                        ELSE << pending[Len(pending)] >>
                   ELSE << >>,
               pending |-> pending ]

\* handleOpenzaloInbound from the return of readAllowFromStore to its next
\* await or return: [pc, outcome, stored, inboundHistory, pending]
handlerGates(acct, message, id, pending) ==
    LET gate == resolveControlCommandGate(message)
        groupHistoryLimit ==
            resolveOpenzaloPendingGroupHistoryLimit(acct.historyLimit)
        wasMentioned == acct.botUserId # "undefined" /\ message.mentioned
        bypassForCommand == gate.hasControlCommand /\ gate.commandAuthorized
        drop(outcome, stored) ==
            [ pc |-> "done", outcome |-> outcome, stored |-> stored,
              inboundHistory |-> << >>,
              pending |-> IF stored
                          THEN appendOpenzaloPendingGroupHistoryEntry(
                                   pending, id, groupHistoryLimit)
                          ELSE pending ]
    IN  IF gate.shouldBlock
        THEN drop("dropUnauthorizedCommand", FALSE)
        ELSE IF acct.requireMention /\ ~wasMentioned /\ ~bypassForCommand
        THEN drop("dropNotMentioned", storesPending(groupHistoryLimit))
        ELSE [ pc |-> "record", outcome |-> "pass", stored |-> FALSE,
               inboundHistory |->
                   IF groupHistoryLimit > 0
                   THEN readOpenzaloPendingGroupHistoryEntries(pending)
                   ELSE << >>,
               pending |-> pending ]

\* lane sequencing: every message of the conversation waits for the full
\* processing of the one before it
laneIdle == \A i \in DOMAIN turns : turns[i].pc = "done"

\* the gateway serves a group through handleOpenzaloInbound
HandlerInit ==
    /\ account \in HandlerAccounts
    /\ tasks = << >>
    /\ humanPassSessions = {}
    /\ mentionDetectionFailureWarnings = {}
    /\ sessionLog = << >>
    /\ pairingRequests = {}
    /\ turns = << >>
    /\ pendingGroupHistory = << >>

\* the lane hands the next message of the group to handleOpenzaloInbound,
\* which runs up to its first await (readAllowFromStore)
HandlerReceiveFrom(inbox) ==
    /\ Len(turns) < MaxMessages
    /\ laneIdle
    /\ \E message \in inbox :
        turns' = Append(turns,
            [ message |-> message, pc |-> "allowFrom", outcome |-> "none",
              stored |-> FALSE, inboundHistory |-> << >>, replied |-> FALSE ])
    /\ UNCHANGED << pendingGroupHistory, dedupeVars, inboundVars, pairingRequests,
                    deliveryVars,
                    laterVars >>

HandlerReceive == HandlerReceiveFrom(HandlerMessages)

\* a message of the group arrives at any time and joins the lane of its
\* conversation; `during` records that a turn was being dispatched then
LaneArrive ==
    /\ Len(turns) < MaxLaneMessages
    /\ \E message \in HandlerMessages :
        turns' = Append(turns,
            [ message |-> message, pc |-> "queued", outcome |-> "none",
              stored |-> FALSE, inboundHistory |-> << >>, replied |-> FALSE,
              during |-> \E i \in DOMAIN turns : turns[i].pc = "dispatch" ])
    /\ UNCHANGED << pendingGroupHistory, dedupeVars, inboundVars, pairingRequests,
                    deliveryVars, laterVars >>

\* the lane hands its oldest waiting message to handleOpenzaloInbound once
\* the processing of every message before it has completed; the handler runs
\* up to its first await (readAllowFromStore)
LaneHandOver ==
    /\ \E i \in DOMAIN turns :
        /\ turns[i].pc = "queued"
        /\ \A j \in 1..(i - 1) : turns[j].pc = "done"
        /\ turns' = [turns EXCEPT ![i].pc = "allowFrom"]
    /\ UNCHANGED << pendingGroupHistory, dedupeVars, inboundVars, pairingRequests,
                    deliveryVars, laterVars >>

\* readAllowFromStore has resolved: the gates run, up to recordInboundSession
HandlerGates ==
    /\ \E i \in DOMAIN turns :
        /\ turns[i].pc = "allowFrom"
        /\ LET g == handlerGates(account, turns[i].message, i, pendingGroupHistory)
           IN  /\ turns' = [turns EXCEPT ![i].pc = g.pc,
                                         ![i].outcome = g.outcome,
                                         ![i].stored = g.stored,
                                         ![i].inboundHistory = g.inboundHistory]
               /\ pendingGroupHistory' = g.pending
    /\ UNCHANGED << dedupeVars, inboundVars, pairingRequests, deliveryVars,
                    laterVars >>

\* recordInboundSession has resolved: the reply dispatch starts
HandlerRecorded ==
    /\ \E i \in DOMAIN turns :
        /\ turns[i].pc = "record"
        /\ turns' = [turns EXCEPT ![i].pc = "dispatch"]
    /\ UNCHANGED << pendingGroupHistory, dedupeVars, inboundVars, pairingRequests,
                    deliveryVars,
                    laterVars >>

\* dispatchReplyWithBufferedBlockDispatcher has resolved, with or without a
\* reply delivered; the pending history that was injected is cleared
HandlerDispatched ==
    /\ \E i \in DOMAIN turns, replied \in BOOLEAN :
        /\ turns[i].pc = "dispatch"
        /\ turns' = [turns EXCEPT ![i].pc = "done", ![i].outcome = "dispatched",
                                  ![i].replied = replied]
        /\ pendingGroupHistory' =
               IF resolveOpenzaloPendingGroupHistoryLimit(account.historyLimit) > 0
                    /\ Len(turns[i].inboundHistory) > 0
               THEN clearOpenzaloPendingGroupHistory(pendingGroupHistory)
               ELSE pendingGroupHistory
    /\ UNCHANGED << dedupeVars, inboundVars, pairingRequests, deliveryVars,
                    laterVars >>

----------------------------------------------------------------------------
(* Part D: deliverOpenzaloReply, the loop over the chunks and media items *)
(* of one reply payload (inbound.ts with the dedupe guard, monitor.ts without) *)

\* no message action has been handled
NoAction ==
    [ action |-> "none", gate |-> TRUE, outcome |-> "none", to |-> "",
      requested |-> "", supplied |-> FALSE, explicitTarget |-> FALSE,
      target |-> "",
      msgId |-> "", cliMsgId |-> "", consulted |-> << >>, transport |-> << >> ]

NoActionsHandled ==
    /\ openzaloUndoRefCache = << >>
    /\ now = 0
    /\ sentTo = {}
    /\ lastAction = NoAction
    /\ actionCount = 0

ActionsIdle ==
    /\ actions = [ messages |-> "unset", reactions |-> "unset" ]
    /\ NoActionsHandled

\* monitorOpenzaloProvider before its first startListener()
ListenerIdle ==
    /\ stopped = FALSE
    /\ aborted = FALSE
    /\ proc = 0
    /\ restartTimer = FALSE
    /\ timers = 0
    /\ started = FALSE
    /\ listeners = << >>
    /\ restartLog = << >>
    /\ runningResolved = FALSE
    /\ crashed = FALSE
    /\ terminations = 0

\* no message is at the group policy step or at the history fetch
NoGroupGate ==
    [ pc |-> "idle", groupPolicy |-> "open", groupId |-> "", groupName |-> "",
      groups |-> << >>, outcome |-> "none" ]

NoHistoryFetch ==
    [ pc |-> "idle", historyLimit |-> 0, bodyLength |-> 0, hasQuote |-> FALSE,
      referenceWord |-> FALSE, limit |-> 0 ]

\* a ZcaClient after its constructor: api = null, listenerStarted = false,
\* reconnectAttempts = 0
NewClient ==
    [ api |-> FALSE, listenerStarted |-> FALSE, listening |-> FALSE,
      reconnectAttempts |-> 0, owner |-> "new", stopCalled |-> FALSE,
      reconnects |-> << >>, reconnected |-> 0, gaveUp |-> FALSE ]

\* no transport command has been invoked
NoCommand ==
    [ fn |-> "none", child |-> "none", ignoresSigterm |-> FALSE,
      timer |-> FALSE, killTimer |-> FALSE, timedOut |-> FALSE,
      termed |-> FALSE, killed |-> FALSE, signal |-> FALSE, aborted |-> FALSE,
      promise |-> "pending", result |-> "none", settleCalls |-> 0 ]

StepsIdle ==
    /\ groupGate = NoGroupGate
    /\ historyFetch = NoHistoryFetch
    /\ client = NewClient
    /\ command = NoCommand

\* the parts after the delivery loop, before anything has run in them
ExtraIdle == ActionsIdle /\ ListenerIdle /\ StepsIdle

\* no reply dispatch is running
NoTurn ==
    [ pc |-> "idle", sendFailureNotice |-> [def |-> FALSE, v |-> FALSE],
      typingStarted |-> FALSE, hadTypingError |-> FALSE, notices |-> 0 ]

\* processMessage has reached the reply dispatch; account.config.sendFailureNotice
\* is unset, true or false
TurnStarts ==
    { [ NoTurn EXCEPT !.pc = "dispatching", !.sendFailureNotice = c ] :
      c \in { [def |-> FALSE, v |-> FALSE], Some(TRUE), Some(FALSE) } }

\* no reply is being delivered
DeliveryQuiet ==
    /\ textChunkLimit = NoNum
    /\ replies = << >>
    /\ call = [ pc |-> "idle", reply |-> 0, kind |-> "text", text |-> EmptyStr,
                items |-> << >>, pos |-> 1, first |-> TRUE,
                sequenceByKey |-> EmptyMap, ticket |-> NoTicket,
                sent |-> FALSE, failed |-> FALSE ]
    /\ sendLog = << >>
    /\ sentReply = FALSE
    /\ hadDispatchError = FALSE
    /\ turn = NoTurn

DeliveryIdle == DeliveryQuiet /\ ExtraIdle

\* the dispatcher holds the payloads of a turn; nothing is delivered yet
DeliverInit ==
    /\ DedupeInit
    /\ InboundIdle
    /\ textChunkLimit \in TextChunkLimits
    /\ replies \in ReplyTurns
    /\ call = [ pc |-> "idle", reply |-> 0, kind |-> "text", text |-> EmptyStr,
                items |-> << >>, pos |-> 1, first |-> TRUE,
                sequenceByKey |-> EmptyMap, ticket |-> NoTicket,
                sent |-> FALSE, failed |-> FALSE ]
    /\ sendLog = << >>
    /\ sentReply = FALSE
    /\ hadDispatchError = FALSE
    /\ turn \in TurnStarts
    /\ ExtraIdle

\* a counter that hands out 1 whatever was counted before
nextSequenceAlwaysOne(map, key) ==
    [ map |-> MapSet(map, key, 1), next |-> 1 ]

\* nextOpenzaloOutboundSequence(map, key): the updated map and the number
nextOpenzaloOutboundSequence(map, key) ==
    [ map |-> MapSet(map, key, MapGet(map, key, 0) + 1),
      next |-> MapGet(map, key, 0) + 1 ]

\* inbound.ts: const limit = textChunkLimit && textChunkLimit > 0 ? ... : 1800
resolveTextLimit(configured) ==
    IF configured.def /\ configured.v > 0 THEN configured.v
    ELSE DefaultTextChunkLimit

\* how long a send takes before it resolves or rejects (ms)
SendDurations == {1, 20000}

\* inbound.ts: the dispatcher calls deliver(payload); deliverOpenzaloReply
\* runs up to the head of its loop
DeliverStart ==
    /\ call.pc \in {"idle", "returned", "threw"}
    /\ call.reply < Len(replies)
    /\ LET payload == replies[call.reply + 1]
           mediaList == payload.mediaUrls
           text == Trim(payload.text)
           chunks == chunkText(text, resolveTextLimit(textChunkLimit))
           finalChunks == IF Len(chunks) > 0 THEN chunks ELSE << text >>
           items == IF Len(mediaList) > 0 THEN mediaList
                    ELSE IF text # EmptyStr THEN finalChunks ELSE << >>
       IN  call' = [ call EXCEPT
                     !.pc = IF items = << >> THEN "returned" ELSE "loop",
                     !.reply = call.reply + 1,
                     !.kind = IF Len(mediaList) > 0 THEN "media" ELSE "text",
                     !.text = text, !.items = items, !.pos = 1,
                     !.first = TRUE, !.sequenceByKey = EmptyMap,
                     !.ticket = NoTicket ]
    /\ UNCHANGED << dedupeVars, inboundVars, pairingRequests, handlerVars,
                    textChunkLimit, replies, sendLog, sentReply,
                    hadDispatchError, laterVars >>

\* inbound.ts, one iteration up to the await: the sequence number, the
\* acquire, and either `continue` (refused) or the call of sendTextOpenzalo /
\* sendMediaOpenzalo, which hands trim(text) or the file to the transport
DeliverItem ==
    /\ call.pc = "loop"
    /\ LET item == call.items[call.pos]
           isMedia == call.kind = "media"
           caption == IF isMedia
                      THEN (IF call.first THEN Some(call.text) ELSE NoStr)
                      ELSE Some(item)
           key == IF isMedia THEN Cat(OrEmpty(caption), Cat(US, item)) ELSE item
           seq == nextOpenzaloOutboundSequence(call.sequenceByKey, key)
           params == [ BaseParams EXCEPT
                       !.kind = call.kind, !.text = caption,
                       !.mediaRef = IF isMedia THEN Some(item) ELSE NoStr,
                       !.sequence = Some(seq.next) ]
           r == acquireOpenzaloOutboundDedupeSlot(DedupeState, params, clock)
           last == call.pos = Len(call.items)
       IN  /\ recentBySignature' = r.st.recent
           /\ inflightBySignature' = r.st.bySig
           /\ inflightByTicket' = r.st.byTicket
           /\ nextTicketId' = r.st.nextTicketId
           /\ sendLog' = Append(sendLog,
                  [ reply |-> call.reply, pos |-> call.pos, kind |-> call.kind,
                    key |-> key, text |-> Trim(OrEmpty(caption)),
                    sequence |-> seq.next,
                    signature |-> buildSignature(params),
                    acquired |-> r.acquired, reason |-> r.reason,
                    ticket |-> r.ticket,
                    held |-> MapHas(r.st.byTicket, r.ticket.id),
                    result |-> IF r.acquired THEN "pending" ELSE "skipped",
                    released |-> "no" ])
           /\ call' = [ call EXCEPT
                        !.sequenceByKey = seq.map,
                        !.ticket = r.ticket,
                        !.pc = IF r.acquired THEN "sending"
                               ELSE IF last THEN "returned" ELSE "loop",
                        !.pos = IF r.acquired THEN call.pos ELSE call.pos + 1 ]
    /\ UNCHANGED << clock, tickets, steps, lastCall, heldSince, owner, sentAt, executing >>
    /\ UNCHANGED << inboundVars, pairingRequests, handlerVars, textChunkLimit,
                    replies, sentReply, hadDispatchError, laterVars >>

\* inbound.ts: the send resolves (sent = true) or throws; the finally block
\* releases the ticket; a throw leaves the loop and deliverOpenzaloReply, and
\* the dispatcher's onError logs it
DeliverSettled ==
    /\ call.pc = "sending"
    /\ \E ok \in BOOLEAN, d \in SendDurations :
        LET nowMs == clock + d
            st == releaseOpenzaloOutboundDedupeSlot(DedupeState, call.ticket,
                                                    ok, nowMs)
            last == call.pos = Len(call.items)
        IN  /\ clock' = nowMs
            /\ recentBySignature' = st.recent
            /\ inflightBySignature' = st.bySig
            /\ inflightByTicket' = st.byTicket
            /\ nextTicketId' = st.nextTicketId
            /\ sendLog' = [ sendLog EXCEPT
                            ![Len(sendLog)].result = IF ok THEN "ok" ELSE "failed",
                            ![Len(sendLog)].released =
                                IF ok THEN "sentTrue" ELSE "sentFalse" ]
            /\ call' = [ call EXCEPT
                         !.pc = IF ~ok THEN "threw"
                                ELSE IF last THEN "returned" ELSE "loop",
                         !.pos = IF ok THEN call.pos + 1 ELSE call.pos,
                         !.first = IF ok THEN FALSE ELSE call.first ]
    /\ UNCHANGED << tickets, steps, lastCall, heldSince, owner, sentAt, executing >>
    /\ UNCHANGED << inboundVars, pairingRequests, handlerVars, textChunkLimit,
                    replies, sentReply, hadDispatchError, laterVars >>

\* send.ts of the monitor: clampText(text, { maxChars }) with resolveMaxChars
clampText(text, maxChars) ==
    SliceTo(text, IF maxChars > 0
                  THEN (IF maxChars < OPENZALO_TEXT_LIMIT THEN maxChars
                        ELSE OPENZALO_TEXT_LIMIT)
                  ELSE OPENZALO_TEXT_LIMIT)

\* monitor.ts: resolveTextChunkLimit(config, ..., { fallbackLimit }) capped by
\* Math.min(configuredTextLimit, OPENZALO_TEXT_LIMIT)
monitorTextLimit(configured) ==
    LET configuredTextLimit == IF configured.def /\ configured.v > 0
                               THEN configured.v ELSE OPENZALO_TEXT_LIMIT
    IN  IF configuredTextLimit < OPENZALO_TEXT_LIMIT THEN configuredTextLimit
        ELSE OPENZALO_TEXT_LIMIT

\* monitor.ts: the dispatcher calls deliver(payload); deliverOpenzaloReply
\* runs up to the head of its loop, or returns for an empty payload
MonitorDeliverStart ==
    /\ turn.pc = "dispatching"
    /\ call.pc \in {"idle", "returned"}
    /\ call.reply < Len(replies)
    /\ LET payload == replies[call.reply + 1]
           mediaList == payload.mediaUrls
           chunks == chunkText(payload.text, monitorTextLimit(textChunkLimit))
           items == IF Len(mediaList) > 0 THEN mediaList
                    ELSE IF payload.text # EmptyStr THEN chunks ELSE << >>
       IN  call' = [ call EXCEPT
                     !.pc = IF items = << >> THEN "returned" ELSE "loop",
                     !.reply = call.reply + 1,
                     !.kind = IF Len(mediaList) > 0 THEN "media" ELSE "text",
                     !.text = payload.text, !.items = items, !.pos = 1,
                     !.first = TRUE, !.sent = FALSE, !.failed = FALSE ]
    /\ UNCHANGED << dedupeVars, inboundVars, pairingRequests, handlerVars,
                    textChunkLimit, replies, sendLog, sentReply,
                    hadDispatchError, laterVars >>

\* monitor.ts, one iteration: sendMessageOpenzalo hands the clamped chunk (or
\* the media item) to the transport and resolves with ok or not; after the
\* last iteration the deliver callback folds the outcome into the turn's flags
MonitorSend ==
    /\ call.pc = "loop"
    /\ \E ok \in BOOLEAN :
        LET item == call.items[call.pos]
            isMedia == call.kind = "media"
            text == IF isMedia THEN (IF call.first THEN call.text ELSE EmptyStr)
                    ELSE clampText(item, monitorTextLimit(textChunkLimit))
            last == call.pos = Len(call.items)
            sent == call.sent \/ ok
            failed == call.failed \/ ~ok
        IN  /\ sendLog' = Append(sendLog,
                   [ reply |-> call.reply, pos |-> call.pos, kind |-> call.kind,
                     key |-> item, text |-> text, sequence |-> 0,
                     signature |-> 0,
                     acquired |-> FALSE, reason |-> "none",
                     ticket |-> NoTicket,
                     held |-> MapHas(inflightByTicket, NoTicket.id),
                     result |-> IF ok THEN "ok" ELSE "failed",
                     released |-> "no" ])
            /\ call' = [ call EXCEPT
                         !.pc = IF last THEN "returned" ELSE "loop",
                         !.pos = call.pos + 1, !.first = FALSE,
                         !.sent = sent, !.failed = failed ]
            /\ sentReply' = (sentReply \/ (last /\ sent))
            /\ hadDispatchError' = (hadDispatchError \/ (last /\ failed))
    /\ UNCHANGED << dedupeVars, inboundVars, pairingRequests, handlerVars,
                    textChunkLimit, replies, laterVars >>

\* a notice that is sent whenever the turn had an error
failureNoticeDueDespiteReply(dispatchError, typingError, replied, setting) ==
    (dispatchError \/ typingError) /\ (setting.def => setting.v)

\* monitor.ts: (hadDispatchError || hadTypingError) && !sentReply &&
\* shouldSendFailureNotice, with shouldSendFailureNotice = (setting !== false)
failureNoticeDue(dispatchError, typingError, replied, setting) ==
    (dispatchError \/ typingError) /\ ~replied /\ (setting.def => setting.v)

\* monitor.ts: the dispatcher calls onReplyStart; sendTypingOpenzalo resolves
\* with ok or not, and onStartError sets hadTypingError
TypingStarted ==
    /\ turn.pc = "dispatching"
    /\ ~turn.typingStarted
    /\ \E ok \in BOOLEAN :
        turn' = [ turn EXCEPT !.typingStarted = TRUE, !.hadTypingError = ~ok ]
    /\ UNCHANGED << dedupeVars, inboundVars, pairingRequests, handlerVars,
                    deliveryVars, extraVars >>

\* monitor.ts: dispatchReplyFromConfig resolves or throws while no payload is
\* being delivered; the catch sets hadDispatchError, and the failure notice is
\* handed to sendMessageOpenzalo when it is due
DispatchSettled ==
    /\ turn.pc = "dispatching"
    /\ call.pc \in {"idle", "returned"}
    /\ \E threw \in BOOLEAN :
        LET dispatchError == hadDispatchError \/ threw
        IN  /\ hadDispatchError' = dispatchError
            /\ turn' = [ turn EXCEPT
                         !.pc = "done",
                         !.notices =
                             IF failureNoticeDue(dispatchError, turn.hadTypingError,
                                                 sentReply, turn.sendFailureNotice)
                             THEN turn.notices + 1 ELSE turn.notices ]
    /\ UNCHANGED << dedupeVars, inboundVars, pairingRequests, handlerVars,
                    textChunkLimit, replies, call, sendLog, sentReply, extraVars >>

----------------------------------------------------------------------------
(* Part E: channel.ts, handleAction. A missing string parameter is "" (the   *)
(* readers return undefined for an empty string); all threads are direct.    *)

\* a ?? b on optional strings
Coalesce(a, b) == IF a # "" THEN a ELSE b

\* a gate that lets every action through
actionGateOpen(cfg, key) == TRUE

\* createActionGate(account.config.actions ?? {})(key): true unless set to false
actionGate(cfg, key) == cfg[key] # "off"

\* the actions behind the messages gate, and their transport commands
MessagesActions ==
    {"read", "edit", "pin", "unpin", "list-pins", "member-info", "delete"}

\* account.config.actions: nothing set, both set to true, either or both set
\* to false
ActionConfigs ==
    { [ messages |-> "unset", reactions |-> "unset" ],
      [ messages |-> "on", reactions |-> "on" ],
      [ messages |-> "off", reactions |-> "unset" ],
      [ messages |-> "unset", reactions |-> "off" ],
      [ messages |-> "off", reactions |-> "off" ] }

\* params of an unsend call and the tool context it runs in
UnsendParams ==
    { [ to |-> to, msgId |-> ids[1], cliMsgId |-> ids[2] ] :
      to \in {"", "t1", "t2"}, ids \in { << "", "" >>, << "mp", "" >>, << "mp", "cp" >> } }

ToolContexts ==
    { [ currentChannelId |-> ch, replyToIdFull |-> ids[1], replyToId |-> ids[2] ] :
      ch \in {"", "t1"}, ids \in { << "", "" >>, << "", "cq" >>, << "mq", "cq" >> } }

\* time between two handleAction calls (ms)
ActionGaps == {1, OPENZALO_UNDO_REF_MAX_AGE_MS + 1}

\* what sendMessageOpenzalo of send.ts resolves with: ok with the message id
\* extracted from stdout (or none), or not ok; it carries no cliMsgId
SendResults ==
    { [ ok |-> TRUE, messageId |-> "ms", msgId |-> "", cliMsgId |-> "" ],
      [ ok |-> TRUE, messageId |-> "", msgId |-> "", cliMsgId |-> "" ],
      [ ok |-> FALSE, messageId |-> "", msgId |-> "", cliMsgId |-> "" ] }

\* what resolveLatestOwnUndoRefFromRecent resolves with: the latest own
\* message of the thread with both ids, or undefined
NoRecentRef == [ msgId |-> "", cliMsgId |-> "" ]

RecentRefs == { [ msgId |-> "mh", cliMsgId |-> "ch" ], NoRecentRef }

\* list.filter((item) => now - item.ts <= OPENZALO_UNDO_REF_MAX_AGE_MS)
aliveRefs(list, nowMs) ==
    SelectSeq(list, LAMBDA item : nowMs - item.ts <= OPENZALO_UNDO_REF_MAX_AGE_MS)

\* a cache that keeps every entry it is given
cacheUndoRefUnbounded(list, ref, nowMs) == << ref >> \o list

\* cacheUndoRef(ref): the new list of the account
cacheUndoRef(list, ref, nowMs) ==
    LET deduped == SelectSeq(list, LAMBDA item :
                       ~(/\ item.threadId = ref.threadId
                         /\ item.msgId = ref.msgId
                         /\ item.cliMsgId = ref.cliMsgId))
        kept == aliveRefs(<< ref >> \o deduped, nowMs)
    IN  SubSeq(kept, 1, IF Len(kept) < OPENZALO_UNDO_REF_MAX_PER_ACCOUNT
                        THEN Len(kept) ELSE OPENZALO_UNDO_REF_MAX_PER_ACCOUNT)

\* findCachedUndoRef({ accountId, threadId? }): the ref found ("" ids when
\* none); threadId "" stands for no threadId
findCachedUndoRef(list, threadId, nowMs) ==
    LET alive == aliveRefs(list, nowMs)
        hits == IF threadId = "" THEN alive
                ELSE SelectSeq(alive, LAMBDA item : item.threadId = threadId)
    IN  IF hits = << >>
        THEN [ threadId |-> "", msgId |-> "", cliMsgId |-> "", ts |-> 0 ]
        ELSE hits[1]

\* a resolution that goes on to every later source
needsMoreIdsAlways(msgId, cliMsgId) == TRUE

\* !msgId || !cliMsgId
needsMoreIds(msgId, cliMsgId) == msgId = "" \/ cliMsgId = ""

\* the unsend branch of handleAction after the gate: the ids and the target it
\* ends with, the sources it consulted (each with the ids held before it),
\* and the cache it leaves
resolveUnsend(params, toolContext, list, nowMs, recentRef) ==
    LET hasExplicitTarget == params.to # ""
        target == Coalesce(params.to, toolContext.currentChannelId)
        step(src, m, c) == << [ source |-> src, msgId |-> m, cliMsgId |-> c ] >>
        m1 == Coalesce(params.msgId, toolContext.replyToIdFull)
        c1 == Coalesce(params.cliMsgId, toolContext.replyToId)
        s1 == step("params", "", "")
                \o (IF needsMoreIds(params.msgId, params.cliMsgId)
                    THEN step("context", params.msgId, params.cliMsgId) ELSE << >>)
        use2 == needsMoreIds(m1, c1)
        cachedForTarget == findCachedUndoRef(list, target, nowMs)
        m2 == IF use2 THEN Coalesce(m1, cachedForTarget.msgId) ELSE m1
        c2 == IF use2 THEN Coalesce(c1, cachedForTarget.cliMsgId) ELSE c1
        list2 == IF use2 THEN aliveRefs(list, nowMs) ELSE list
        s2 == IF use2 THEN step("cacheThread", m1, c1) ELSE << >>
        use3 == needsMoreIds(m2, c2) /\ ~hasExplicitTarget
        cachedLatest == findCachedUndoRef(list2, "", nowMs)
        found3 == use3 /\ cachedLatest.msgId # ""
        target3 == IF found3 THEN cachedLatest.threadId ELSE target
        m3 == IF found3 THEN Coalesce(m2, cachedLatest.msgId) ELSE m2
        c3 == IF found3 THEN Coalesce(c2, cachedLatest.cliMsgId) ELSE c2
        list3 == IF use3 THEN aliveRefs(list2, nowMs) ELSE list2
        s3 == IF use3 THEN step("cacheLatest", m2, c2) ELSE << >>
        use4 == needsMoreIds(m3, c3)
        found4 == use4 /\ recentRef.msgId # ""
        m4 == IF found4 THEN Coalesce(m3, recentRef.msgId) ELSE m3
        c4 == IF found4 THEN Coalesce(c3, recentRef.cliMsgId) ELSE c3
        list4 == IF found4
                 THEN cacheUndoRef(list3, [ threadId |-> target3,
                                            msgId |-> recentRef.msgId,
                                            cliMsgId |-> recentRef.cliMsgId,
                                            ts |-> nowMs ], nowMs)
                 ELSE list3
        s4 == IF use4 THEN step("history", m3, c3) ELSE << >>
    IN  [ explicitTarget |-> hasExplicitTarget, target |-> target3,
          msgId |-> m4, cliMsgId |-> c4,
          consulted |-> s1 \o s2 \o s3 \o s4, list |-> list4,
          history |-> use4 ]

\* handleAction, action = "send": no gate; the send, then cacheUndoRef when the
\* result carries both ids
HandleSend ==
    /\ actionCount < MaxActions
    /\ \E to \in {"t1", "t2"}, result \in SendResults :
        LET nowMs == now + 1
            sentMsgId == Coalesce(result.messageId, result.msgId)
        IN  /\ now' = nowMs
            /\ openzaloUndoRefCache' =
                   IF result.ok /\ sentMsgId # "" /\ result.cliMsgId # ""
                   THEN cacheUndoRef(openzaloUndoRefCache,
                            [ threadId |-> to, msgId |-> sentMsgId,
                              cliMsgId |-> result.cliMsgId, ts |-> nowMs ], nowMs)
                   ELSE openzaloUndoRefCache
            /\ sentTo' = IF result.ok
                          THEN sentTo \cup { [ threadId |-> to, ts |-> nowMs,
                                               messageId |-> sentMsgId ] }
                          ELSE sentTo
            /\ lastAction' = [ NoAction EXCEPT
                               !.action = "send", !.to = to, !.requested = to,
                               !.target = to,
                               !.outcome = IF result.ok THEN "ok" ELSE "failed",
                               !.msgId = sentMsgId, !.cliMsgId = result.cliMsgId,
                               !.transport = << "msg send" >> ]
    /\ actionCount' = actionCount + 1
    /\ UNCHANGED << actions, dedupeVars, inboundVars, pairingRequests,
                    handlerVars, deliveryVars, turn, listenerVars, stepVars >>

\* handleAction for read, react, edit, pin, unpin, list-pins, member-info and
\* delete, called with the parameters each requires: the gate, then the one
\* transport command of the action
HandleGated ==
    /\ actionCount < MaxActions
    /\ \E action \in MessagesActions \cup {"react"}, ok \in BOOLEAN :
        LET gate == actionGate(actions, IF action = "react" THEN "reactions"
                                        ELSE "messages")
        IN  lastAction' = [ NoAction EXCEPT
                            !.action = action, !.gate = gate, !.to = "t1",
                            !.requested = "t1", !.target = "t1",
                            !.outcome = IF ~gate THEN "rejected"
                                        ELSE IF ok THEN "ok" ELSE "failed",
                            !.transport = IF gate THEN << action >> ELSE << >> ]
    /\ actionCount' = actionCount + 1
    /\ UNCHANGED << actions, openzaloUndoRefCache, now, sentTo, dedupeVars,
                    inboundVars, pairingRequests, handlerVars, deliveryVars, turn,
                    listenerVars, stepVars >>

\* handleAction, action = "unsend": the gate, the thread target, the id
\* resolution, and unsendMessageOpenzalo when both ids are resolved
HandleUnsend ==
    /\ actionCount < MaxActions
    /\ \E params \in UnsendParams, toolContext \in ToolContexts, gap \in ActionGaps :
        LET nowMs == now + gap
            gate == actionGate(actions, "messages")
            requested == Coalesce(params.to, toolContext.currentChannelId)
            base == [ NoAction EXCEPT
                      !.action = "unsend", !.gate = gate, !.to = params.to,
                      !.requested = requested,
                      !.supplied =
                          \/ params.msgId # "" \/ params.cliMsgId # ""
                          \/ toolContext.replyToIdFull # ""
                          \/ toolContext.replyToId # "" ]
            \* whether the resolution reaches the history query
            asks == resolveUnsend(params, toolContext, openzaloUndoRefCache,
                                  nowMs, NoRecentRef).history
        IN  /\ now' = nowMs
            /\ IF ~gate \/ requested = ""
               THEN /\ lastAction' = [ base EXCEPT !.outcome = "rejected" ]
                    /\ UNCHANGED openzaloUndoRefCache
               ELSE \E recentRef \in IF asks THEN RecentRefs ELSE {NoRecentRef} :
                    LET r == resolveUnsend(params, toolContext,
                                 openzaloUndoRefCache, nowMs, recentRef)
                        resolved == r.msgId # "" /\ r.cliMsgId # ""
                    IN  \E ok \in IF resolved THEN BOOLEAN ELSE {FALSE} :
                        /\ openzaloUndoRefCache' = r.list
                        /\ lastAction' =
                             [ base EXCEPT
                               !.explicitTarget = r.explicitTarget,
                               !.target = r.target,
                               !.msgId = r.msgId, !.cliMsgId = r.cliMsgId,
                               !.consulted = r.consulted,
                               !.outcome = IF ~resolved THEN "unresolved"
                                           ELSE IF ok THEN "ok" ELSE "failed",
                               !.transport =
                                   (IF r.history THEN << "msg recent" >> ELSE << >>)
                                   \o (IF resolved THEN << "msg undo" >> ELSE << >>) ]
    /\ actionCount' = actionCount + 1
    /\ UNCHANGED << actions, sentTo, dedupeVars, inboundVars, pairingRequests,
                    handlerVars, deliveryVars, turn, listenerVars, stepVars >>

\* the plugin is loaded with some actions configuration; no action handled yet
ActionsInit ==
    /\ DedupeInit
    /\ InboundIdle
    /\ DeliveryQuiet
    /\ actions \in ActionConfigs
    /\ NoActionsHandled
    /\ ListenerIdle
    /\ StepsIdle

\* the undo-reference cache on its own: cacheUndoRef and findCachedUndoRef
\* called MaxCacheCalls times after some messages have been cached, the calls
\* 1 ms, exactly the maximum age, or more than the maximum age apart
CacheGaps == {1, OPENZALO_UNDO_REF_MAX_AGE_MS, OPENZALO_UNDO_REF_MAX_AGE_MS + 1}

\* a lookup follows the call before it at once, or after the maximum age,
\* or later
LookupGaps == {0, OPENZALO_UNDO_REF_MAX_AGE_MS, OPENZALO_UNDO_REF_MAX_AGE_MS + 1}

\* the ref of a message sent or recovered now: ids not seen before (they are
\* taken from the time), in one of two threads
freshUndoRef(nowMs) ==
    [ threadId |-> IF nowMs % 2 = 1 THEN "t1" ELSE "t2",
      msgId |-> ToString(nowMs), cliMsgId |-> ToString(nowMs), ts |-> nowMs ]

\* cacheUndoRef({ ..., ts: Date.now() }) for a message not cached before
CacheFresh ==
    /\ actionCount < MaxCacheCalls
    /\ \E gap \in CacheGaps :
        LET nowMs == now + gap
        IN  /\ now' = nowMs
            /\ openzaloUndoRefCache' =
                   cacheUndoRef(openzaloUndoRefCache,
                                freshUndoRef(nowMs), nowMs)
    /\ lastAction' = [ NoAction EXCEPT !.action = "cache" ]
    /\ actionCount' = actionCount + 1
    /\ UNCHANGED << actions, sentTo, dedupeVars, inboundVars, pairingRequests,
                    handlerVars, deliveryVars, turn, listenerVars, stepVars >>

\* cacheUndoRef for the ids of an entry the cache holds (the history query
\* recovers the same message again): its newest or its oldest entry
CacheAgain ==
    /\ actionCount < MaxCacheCalls
    /\ openzaloUndoRefCache # << >>
    /\ \E gap \in CacheGaps, i \in {1, Len(openzaloUndoRefCache)} :
        LET nowMs == now + gap
        IN  /\ now' = nowMs
            /\ openzaloUndoRefCache' =
                   cacheUndoRef(openzaloUndoRefCache,
                                [ openzaloUndoRefCache[i] EXCEPT !.ts = nowMs ],
                                nowMs)
    /\ lastAction' = [ NoAction EXCEPT !.action = "cache" ]
    /\ actionCount' = actionCount + 1
    /\ UNCHANGED << actions, sentTo, dedupeVars, inboundVars, pairingRequests,
                    handlerVars, deliveryVars, turn, listenerVars, stepVars >>

\* findCachedUndoRef({ accountId, threadId? }): the entry it returns is kept
\* in lastAction.consulted, and the list is replaced by its alive entries
CacheLookup ==
    /\ actionCount < MaxCacheCalls
    /\ \E gap \in LookupGaps, threadId \in {"", "t1", "t2"} :
        LET nowMs == now + gap
            hit == findCachedUndoRef(openzaloUndoRefCache, threadId, nowMs)
        IN  /\ now' = nowMs
            /\ openzaloUndoRefCache' = aliveRefs(openzaloUndoRefCache, nowMs)
            /\ lastAction' =
                   [ NoAction EXCEPT
                     !.action = "lookup", !.requested = threadId,
                     !.outcome = IF hit.msgId = "" THEN "none" ELSE "found",
                     !.consulted = IF hit.msgId = "" THEN << >> ELSE << hit >> ]
    /\ actionCount' = actionCount + 1
    /\ UNCHANGED << actions, sentTo, dedupeVars, inboundVars, pairingRequests,
                    handlerVars, deliveryVars, turn, listenerVars, stepVars >>

\* the list that k cacheUndoRef calls leave, k no more than the cache holds,
\* for messages cached 1 ms apart from time 1 on: the newest first
cachedRun(k) == [ i \in 1..k |-> freshUndoRef(k + 1 - i) ]

\* the messages cached before the calls that are followed: none, a few, or
\* as many as the cache holds
CachedBefore == {0, 1, 2, OPENZALO_UNDO_REF_MAX_PER_ACCOUNT - 1,
                 OPENZALO_UNDO_REF_MAX_PER_ACCOUNT}

\* const openzaloUndoRefCache = new Map(), and the cacheUndoRef calls made
\* before the calls that are followed
CacheInit ==
    /\ DedupeInit
    /\ InboundIdle
    /\ DeliveryQuiet
    /\ actions = [ messages |-> "unset", reactions |-> "unset" ]
    /\ \E k \in CachedBefore :
        /\ openzaloUndoRefCache = cachedRun(k)
        /\ now = k
    /\ sentTo = {}
    /\ lastAction = NoAction
    /\ actionCount = 0
    /\ ListenerIdle
    /\ StepsIdle

----------------------------------------------------------------------------
(* Part G: the content check at the head of processMessage (monitor.ts) and  *)
(* of handleOpenzaloInbound (inbound.ts)                                     *)

\* the messages every raw message is a variant of
ContentBases ==
    { [sender |-> "stranger", body |-> "hello", mentioned |-> FALSE, isGroup |-> FALSE],
      [sender |-> "owner", body |-> "human pass on", mentioned |-> FALSE, isGroup |-> FALSE],
      [sender |-> "guest", body |-> "hello", mentioned |-> TRUE, isGroup |-> TRUE] }

\* what the listener hands over: the text as received (none, blank, or the
\* text), with or without media, with or without a quote
RawMessages ==
    { [ m EXCEPT !.body = IF c[1] = "text" THEN m.body ELSE c[1] ]
      @@ [ media |-> c[2], quote |-> c[3] ] :
      m \in ContentBases,
      c \in { << "text", FALSE, FALSE >>, << "", FALSE, FALSE >>,
              << " ", FALSE, FALSE >>, << "", TRUE, FALSE >>,
              << "", FALSE, TRUE >> } }

\* the monitor has started the listener of an account whose direct messages
\* are open or need pairing and whose groups are open
ContentInit ==
    /\ DedupeInit
    /\ DeliveryIdle
    /\ account \in { a \in DmAccounts : a.dmPolicy \in {"pairing", "open"} }
    /\ tasks = << >>
    /\ humanPassSessions = {}
    /\ mentionDetectionFailureWarnings = {}
    /\ sessionLog = << >>
    /\ pairingRequests = {}
    /\ turns = << >>
    /\ pendingGroupHistory = << >>

\* normalizeStringValue(content) ?? "" / message.text.trim(), on these texts
normalizeStringValue(value) == IF value = " " THEN "" ELSE value

\* a content check that lets every message through
hasInboundContextAlways(message) == TRUE

\* hasInboundContext of processMessage
hasInboundContext(message) ==
    message.body # "" \/ message.quote \/ message.media

\* !(!rawBody && !hasMedia) of handleOpenzaloInbound
hasTextOrMedia(message) == message.body # "" \/ message.media

\* the listener delivers any message to processMessage, which returns at once
\* for a message without content and else runs up to its first await
ReceiveContent ==
    /\ Len(tasks) + Len(turns) < MaxMessages
    /\ \E raw \in RawMessages :
        LET message == [ raw EXCEPT !.body = normalizeStringValue(raw.body) ]
        IN  IF ~hasInboundContext(message)
            THEN /\ tasks' = Append(tasks,
                       [ message |-> message, pc |-> "done",
                         outcome |-> "dropNoContent", humanPassSeen |-> FALSE,
                         sends |-> {} ])
                 /\ UNCHANGED << account, humanPassSessions,
                                 mentionDetectionFailureWarnings, sessionLog,
                                 outsideMonitor, pairingRequests >>
            ELSE IF message.isGroup
            THEN ReceiveFrom({message}, MaxMessages)
            ELSE ReceiveDmFrom({message})

\* the lane hands any group message to handleOpenzaloInbound, which returns
\* at once for a message without text and media
HandlerReceiveContent ==
    /\ Len(tasks) + Len(turns) < MaxMessages
    /\ laneIdle
    /\ \E raw \in { r \in RawMessages : r.isGroup } :
        LET message == [ raw EXCEPT !.body = normalizeStringValue(raw.body) ]
        IN  IF ~hasTextOrMedia(message)
            THEN /\ turns' = Append(turns,
                       [ message |-> message, pc |-> "done",
                         outcome |-> "dropNoContent", stored |-> FALSE,
                         inboundHistory |-> << >>, replied |-> FALSE ])
                 /\ UNCHANGED << pendingGroupHistory, dedupeVars, inboundVars,
                                 pairingRequests, deliveryVars, laterVars >>
            ELSE HandlerReceiveFrom({message})

----------------------------------------------------------------------------
(* Part H: monitor.ts, the group policy step and the adaptive history limit  *)
(* of processMessage, each as one step on its inputs                         *)

\* the keys an entry of account.config.groups may have: the group's id, the
\* prefixed id, its name, the slug of its name, another group's id, and "*"
GroupKeys == {"g1", "group:g1", "Team A", "team-a", "g2", "*"}

\* an entry: no flag set, allow: false, or enabled: false
EntryFlags == {"plain", "allowFalse", "enabledFalse"}

\* account.config.groups with up to two entries
GroupConfigs ==
    UNION { [ keys -> EntryFlags ] :
            keys \in { k \in SUBSET GroupKeys : Cardinality(k) <= 2 } }

\* normalizeGroupSlug, on the names of the model
normalizeGroupSlug(raw) == IF raw = "Team A" THEN "team-a" ELSE ""

\* entry.allow !== false && entry.enabled !== false
entryAllows(entry) == entry = "plain"

\* a group check that admits every group
isGroupAllowedAlways(groupId, groupName, groups) == TRUE

\* a group check that reads the "*" entry before the group's own entries
isGroupAllowedWildcardFirst(groupId, groupName, groups) ==
    LET candidates ==
            SelectSeq(<< groupId, "group:" \o groupId, groupName,
                         normalizeGroupSlug(groupName) >>,
                      LAMBDA c : c # "")
        hits == SelectSeq(candidates, LAMBDA c : c \in DOMAIN groups)
    IN  IF DOMAIN groups = {} THEN FALSE
        ELSE IF "*" \in DOMAIN groups THEN entryAllows(groups["*"])
        ELSE IF hits # << >> THEN entryAllows(groups[hits[1]])
        ELSE FALSE

\* isGroupAllowed({ groupId, groupName, groups }), entries with their flags
isGroupAllowedByEntry(groupId, groupName, groups) ==
    LET candidates ==
            SelectSeq(<< groupId, "group:" \o groupId, groupName,
                         normalizeGroupSlug(groupName) >>,
                      LAMBDA c : c # "")
        hits == SelectSeq(candidates, LAMBDA c : c \in DOMAIN groups)
    IN  IF DOMAIN groups = {} THEN FALSE
        ELSE IF hits # << >> THEN entryAllows(groups[hits[1]])
        ELSE IF "*" \in DOMAIN groups THEN entryAllows(groups["*"])
        ELSE FALSE

\* a group message reaches the group policy step
GroupGateInit ==
    /\ DedupeInit
    /\ InboundIdle
    /\ DeliveryQuiet
    /\ ActionsIdle
    /\ ListenerIdle
    /\ historyFetch = NoHistoryFetch
    /\ client = NewClient
    /\ command = NoCommand
    /\ groupGate \in
         { [ NoGroupGate EXCEPT !.pc = "received", !.groupPolicy = policy,
                                !.groupId = "g1", !.groupName = name,
                                !.groups = groups ] :
           policy \in {"disabled", "allowlist", "open"},
           name \in {"", "Team A"}, groups \in GroupConfigs }

\* if (isGroup) { disabled: return; allowlist: return unless isGroupAllowed }
GroupPolicyStep ==
    /\ groupGate.pc = "received"
    /\ groupGate' =
         [ groupGate EXCEPT
           !.pc = "decided",
           !.outcome =
               IF groupGate.groupPolicy = "disabled" THEN "drop"
               ELSE IF /\ groupGate.groupPolicy = "allowlist"
                       /\ ~isGroupAllowedByEntry(groupGate.groupId,
                              groupGate.groupName, groupGate.groups)
               THEN "drop"
               ELSE "proceed" ]
    /\ UNCHANGED << dedupeVars, inboundVars, pairingRequests, handlerVars,
                    deliveryVars, turn, actionVars, listenerVars, historyFetch,
                    client, command >>

\* shouldExpandGroupHistoryWindow, on the length of the trimmed body and on
\* whether a reference pattern matches it
shouldExpandGroupHistoryWindow(bodyLength, hasQuote, referenceWord) ==
    IF hasQuote THEN TRUE
    ELSE IF bodyLength = 0 THEN FALSE
    ELSE IF bodyLength <= ShortBodyMax THEN TRUE
    ELSE referenceWord

Min(a, b) == IF a < b THEN a ELSE b

Max(a, b) == IF a > b THEN a ELSE b

\* resolveAdaptiveGroupHistoryLimit
resolveAdaptiveGroupHistoryLimit(baseLimit, bodyLength, hasQuote, referenceWord) ==
    LET base == Min(Max(baseLimit, 0), HistoryLimitMax)
        expanded == Min(Max(base * 3, base + 6), AdaptiveHistoryCeiling)
    IN  IF base = 0 THEN 0
        ELSE IF ~shouldExpandGroupHistoryWindow(bodyLength, hasQuote, referenceWord)
        THEN base
        ELSE Min(Max(expanded, 1), HistoryLimitMax)

\* the history limits an account may resolve to (config-schema: int, min 0)
HistoryLimits == {0, 1, 2, 3, 6, 8, 16, 17, 44, 50, 51, 60, 200, 250}

\* a group message reaches the history backfill
HistoryInit ==
    /\ DedupeInit
    /\ InboundIdle
    /\ DeliveryQuiet
    /\ ActionsIdle
    /\ ListenerIdle
    /\ groupGate = NoGroupGate
    /\ client = NewClient
    /\ command = NoCommand
    /\ historyFetch \in
         { [ NoHistoryFetch EXCEPT !.pc = "gated", !.historyLimit = b,
                                   !.bodyLength = len, !.hasQuote = q,
                                   !.referenceWord = w ] :
           b \in HistoryLimits, len \in {0, 1, ShortBodyMax, ShortBodyMax + 1},
           q \in BOOLEAN, w \in BOOLEAN }

\* if (isGroup && historyLimit > 0) fetchGroupRecentHistory with the adaptive
\* limit; else no fetch
HistoryBackfill ==
    /\ historyFetch.pc = "gated"
    /\ historyFetch' =
         IF historyFetch.historyLimit > 0
         THEN [ historyFetch EXCEPT
                !.pc = "fetched",
                !.limit = resolveAdaptiveGroupHistoryLimit(
                              historyFetch.historyLimit, historyFetch.bodyLength,
                              historyFetch.hasQuote, historyFetch.referenceWord) ]
         ELSE [ historyFetch EXCEPT !.pc = "skipped" ]
    /\ UNCHANGED << dedupeVars, inboundVars, pairingRequests, handlerVars,
                    deliveryVars, turn, actionVars, listenerVars, groupGate,
                    client, command >>

----------------------------------------------------------------------------
(* Part I: types.ts, ZcaClient. login() awaits the backend, so its call and   *)
(* its settling are two steps; startListener() and stop() have no await.     *)
(* listening: the listener of the current api object is running.             *)

maxReconnectAttempts == 10

reconnectDelayMs == 2000

outsideClient ==
    << dedupeVars, inboundVars, pairingRequests, handlerVars, deliveryVars,
       turn, actionVars, listenerVars, groupGate, historyFetch, command >>

\* 2 to the power n
Pow2(n) == LET RECURSIVE p(_)
               p(k) == IF k = 0 THEN 1 ELSE 2 * p(k - 1)
           IN  p(n)

\* the body of startListener() once this.api is set: return if the listener
\* is already started, else register the handlers and start it
startListenerOn(c) ==
    IF c.listenerStarted THEN c
    ELSE [ c EXCEPT !.listening = TRUE, !.listenerStarted = TRUE ]

\* stop(): stop the listener if it runs, listenerStarted = false, api = null;
\* the handleReconnect calls in progress are left as they are
stopClient(c) ==
    [ c EXCEPT !.listening = IF c.api /\ c.listenerStarted THEN FALSE ELSE @,
               !.listenerStarted = FALSE, !.api = FALSE, !.stopCalled = TRUE ]

\* handleReconnect() up to its await: give up at maxReconnectAttempts, else
\* count the attempt and wait reconnectDelayMs * 2^(attempts - 1)
handleReconnect(c) ==
    IF c.reconnectAttempts >= maxReconnectAttempts
    THEN [ c EXCEPT !.gaveUp = TRUE ]
    ELSE [ c EXCEPT
           !.reconnectAttempts = @ + 1,
           !.reconnects =
               Append(@, [ pc |-> "backoff",
                           delay |-> reconnectDelayMs
                                       * Pow2(c.reconnectAttempts) ]) ]

\* the reconnects of c without the i-th
WithoutReconnect(c, i) ==
    [ c EXCEPT !.reconnects =
        SubSeq(@, 1, i - 1) \o SubSeq(@, i + 1, Len(@)) ]

\* the owner calls login()
ClientLoginCalled ==
    /\ client.owner = "new"
    /\ client' = [ client EXCEPT !.owner = "login" ]
    /\ UNCHANGED outsideClient

\* the owner's login() settles: this.api is set and reconnectAttempts is 0,
\* or the QR login throws
ClientLoginSettled ==
    /\ client.owner = "login"
    /\ \E ok \in BOOLEAN :
         client' = IF ok
                   THEN [ client EXCEPT !.api = TRUE, !.reconnectAttempts = 0,
                                        !.owner = "loggedIn" ]
                   ELSE [ client EXCEPT !.owner = "failed" ]
    /\ UNCHANGED outsideClient

\* the owner calls startListener()
ClientStartListener ==
    /\ client.owner = "loggedIn"
    /\ client.api
    /\ client' = [ startListenerOn(client) EXCEPT !.owner = "started" ]
    /\ UNCHANGED outsideClient

\* api.listener.on("disconnected"): listenerStarted = false, onDisconnect,
\* handleReconnect()
ClientDisconnected ==
    /\ client.listening
    /\ client' = handleReconnect([ client EXCEPT !.listening = FALSE,
                                                 !.listenerStarted = FALSE ])
    /\ UNCHANGED outsideClient

\* the backoff delay of a handleReconnect call elapses: it calls login()
ReconnectBackoffElapsed(i) ==
    /\ client.reconnects[i].pc = "backoff"
    /\ client' = [ client EXCEPT !.reconnects[i].pc = "login" ]
    /\ UNCHANGED outsideClient

\* the login() of a handleReconnect call settles: on success startListener()
\* and onReconnect, on failure handleReconnect() again
ReconnectLoginSettled(i) ==
    /\ client.reconnects[i].pc = "login"
    /\ \E ok \in BOOLEAN :
         client' =
             IF ok
             THEN [ startListenerOn([ WithoutReconnect(client, i) EXCEPT
                                      !.api = TRUE, !.reconnectAttempts = 0 ])
                    EXCEPT !.reconnected =
                               IF @ < MaxReconnects THEN @ + 1 ELSE @ ]
             ELSE handleReconnect(WithoutReconnect(client, i))
    /\ UNCHANGED outsideClient

\* the owner calls stop(), once, when none of its own calls is in progress
ClientStop ==
    /\ client.owner \in {"loggedIn", "started", "failed"}
    /\ ~client.stopCalled
    /\ client' = stopClient(client)
    /\ UNCHANGED outsideClient

ClientInit ==
    /\ DedupeInit
    /\ InboundIdle
    /\ DeliveryQuiet
    /\ ActionsIdle
    /\ ListenerIdle
    /\ StepsIdle

----------------------------------------------------------------------------
(* Part J: openzca.ts, one transport command run by runOpenzca or by          *)
(* runOpenzcaCommand. The child is a process of the operating system: it may  *)
(* exit by itself, it dies of SIGKILL, and it dies of SIGTERM unless it       *)
(* ignores the signal. An exit code is "0", "1" or "null" (died of a signal). *)

outsideCommand ==
    << dedupeVars, inboundVars, pairingRequests, handlerVars, deliveryVars,
       turn, actionVars, listenerVars, groupGate, historyFetch, client >>

\* resolve(...) or reject(...) of the call's promise: only the first call
\* settles it
settle(c, how, res) ==
    [ c EXCEPT !.settleCalls = @ + 1,
               !.promise = IF c.promise = "pending" THEN how ELSE @,
               !.result = IF c.promise = "pending" THEN res ELSE @ ]

\* finish(fn) of runOpenzcaCommand: clear the timeout, remove the abort
\* handler, then fn()
finish(c, how, res) ==
    settle([ c EXCEPT !.timer = FALSE, !.signal = FALSE ], how, res)

\* proc.on("close") of runOpenzca: clear the timer; a timed-out command is
\* ok: false, any other is ok: code === 0
onCloseOpenzca(c, code) ==
    LET cleared == [ c EXCEPT !.timer = FALSE, !.child = "closed" ]
    IN  IF c.timedOut THEN settle(cleared, "resolved", "failed")
        ELSE settle(cleared, "resolved", IF code = "0" THEN "ok" ELSE "failed")

\* child.on("close") of runOpenzcaCommand: exitCode = code ?? 0; reject on a
\* non-zero exit code, else resolve
onCloseCommand(c, code) ==
    LET exitCode == IF code = "null" THEN "0" ELSE code
        closed == [ c EXCEPT !.child = "closed" ]
    IN  IF exitCode # "0" THEN finish(closed, "rejected", "failed")
        ELSE finish(closed, "resolved", "ok")

onClose(c, code) ==
    IF c.fn = "runOpenzca" THEN onCloseOpenzca(c, code)
    ELSE onCloseCommand(c, code)

\* runOpenzca(args, options) up to the await of spawnOpenzcaProcess
runOpenzca ==
    /\ command.fn = "none"
    /\ \E ignores \in BOOLEAN :
         command' = [ NoCommand EXCEPT !.fn = "runOpenzca",
                                       !.child = "spawning",
                                       !.ignoresSigterm = ignores ]
    /\ UNCHANGED outsideCommand

\* spawnOpenzcaProcess settles: .then sets the timer (options.timeout ??
\* DEFAULT_TIMEOUT) and the handlers, .catch resolves with ok: false
OpenzcaSpawnSettled ==
    /\ command.fn = "runOpenzca"
    /\ command.child = "spawning"
    /\ \E ok \in BOOLEAN :
         command' =
             IF ok THEN [ command EXCEPT !.child = "running", !.timer = TRUE ]
             ELSE settle([ command EXCEPT !.child = "none" ],
                         "resolved", "failed")
    /\ UNCHANGED outsideCommand

\* runOpenzcaCommand(options): spawn, the timeout if options.timeoutMs > 0,
\* the abort handler if options.signal, run at once if it is aborted already
runOpenzcaCommand ==
    /\ command.fn = "none"
    /\ \E ignores, hasTimeout, hasSignal, abortedAlready, spawned \in BOOLEAN :
         /\ abortedAlready => hasSignal
         /\ command' =
              [ NoCommand EXCEPT
                !.fn = "runOpenzcaCommand",
                !.child = IF spawned THEN "running" ELSE "spawnFailed",
                !.ignoresSigterm = ignores,
                !.timer = hasTimeout,
                !.signal = hasSignal,
                !.aborted = abortedAlready,
                !.termed = abortedAlready /\ spawned,
                !.killTimer = abortedAlready ]
    /\ UNCHANGED outsideCommand

\* the timeout elapses. runOpenzca: timedOut = true, SIGTERM.
\* runOpenzcaCommand: SIGTERM, and SIGKILL 2000 ms later.
CommandTimeoutFired ==
    /\ command.timer
    /\ command' =
         [ command EXCEPT
           !.timer = FALSE,
           !.timedOut = TRUE,
           !.termed = @ \/ command.child = "running",
           !.killTimer = @ \/ command.fn = "runOpenzcaCommand" ]
    /\ UNCHANGED outsideCommand

\* setTimeout(() => child.kill("SIGKILL"), 2000)
CommandKillTimerFired ==
    /\ command.killTimer
    /\ command' = [ command EXCEPT !.killTimer = FALSE,
                                   !.killed = @ \/ command.child = "running" ]
    /\ UNCHANGED outsideCommand

\* options.signal fires while the abort handler is registered
CommandAborted ==
    /\ command.fn = "runOpenzcaCommand"
    /\ command.signal
    /\ ~command.aborted
    /\ command' = [ command EXCEPT
                    !.aborted = TRUE,
                    !.termed = @ \/ command.child = "running",
                    !.killTimer = TRUE ]
    /\ UNCHANGED outsideCommand

\* child.on("error") after a failed spawn: finish(() => reject(err))
ChildError ==
    /\ command.child = "spawnFailed"
    /\ command' = finish([ command EXCEPT !.child = "errored" ],
                         "rejected", "failed")
    /\ UNCHANGED outsideCommand

\* the child exits by itself with code 0 or 1, or the streams of a child
\* that failed to spawn close
ChildExited ==
    /\ \/ /\ command.child = "running"
          /\ \E code \in {"0", "1"} : command' = onClose(command, code)
       \/ /\ command.child = "errored"
          /\ command' = onClose(command, "1")
    /\ UNCHANGED outsideCommand

\* the child dies of SIGKILL, or of SIGTERM when it does not ignore it:
\* "close" with code null
ChildKilledBySignal ==
    /\ command.child = "running"
    /\ command.killed \/ (command.termed /\ ~command.ignoresSigterm)
    /\ command' = [ onClose(command, "null") EXCEPT !.child = "killed" ]
    /\ UNCHANGED outsideCommand

CommandInit ==
    /\ DedupeInit
    /\ InboundIdle
    /\ DeliveryQuiet
    /\ ActionsIdle
    /\ ListenerIdle
    /\ StepsIdle

----------------------------------------------------------------------------
(* Part F: monitor.ts, startOpenzcaListener and the startListener loop of    *)
(* monitorOpenzaloProvider. The await of the spawn is an interleaving point. *)

\* a startOpenzcaListener call whose spawn has not settled
NewListener ==
    [ pc |-> "spawning", alive |-> FALSE, reportedTermination |-> FALSE,
      killed |-> FALSE, abortHooked |-> FALSE, afterAbort |-> aborted ]

\* how a running listener terminates: the process exits, a listener-closed
\* marker on stderr, an error event of the process
TerminationCauses == {"exit", "stderr", "error"}

\* try { proc.kill("SIGTERM") } catch { } in the onError callback
staleKillCaught == TRUE

ListenerState(ls) ==
    [ listeners |-> ls, proc |-> proc, restartTimer |-> restartTimer,
      timers |-> timers, restartLog |-> restartLog, runningResolved |-> runningResolved,
      crashed |-> crashed, terminations |-> terminations ]

\* an onError callback that reports the termination and schedules nothing
onErrorNoRestart(ls, cause, killThrows) ==
    IF stopped \/ aborted
    THEN [ ListenerState(ls) EXCEPT !.runningResolved = TRUE ]
    ELSE [ ListenerState(ls) EXCEPT
           !.listeners = IF proc # 0 /\ ~killThrows
                         THEN [ ls EXCEPT ![proc].killed = TRUE ] ELSE ls,
           !.proc = 0,
           !.crashed = crashed \/ (proc # 0 /\ killThrows /\ ~staleKillCaught),
           !.terminations = terminations + 1 ]

\* the onError callback startListener hands to startOpenzcaListener
onError(ls, cause, killThrows) ==
    IF stopped \/ aborted
    THEN [ ListenerState(ls) EXCEPT !.runningResolved = TRUE ]
    ELSE [ ListenerState(ls) EXCEPT
           !.listeners = IF proc # 0 /\ ~killThrows
                         THEN [ ls EXCEPT ![proc].killed = TRUE ] ELSE ls,
           !.proc = 0,
           !.crashed = crashed \/ (proc # 0 /\ killThrows /\ ~staleKillCaught),
           !.restartTimer = TRUE,
           !.timers = (IF restartTimer THEN timers - 1 ELSE timers) + 1,
           !.restartLog = Append(restartLog,
                              [ delay |-> RestartDelayMs, cause |-> cause ]),
           !.terminations = terminations + 1 ]

\* the .catch of startListener: the listener failed to start
onStartFailure(ls) ==
    IF stopped \/ aborted
    THEN [ ListenerState(ls) EXCEPT !.runningResolved = TRUE ]
    ELSE [ ListenerState(ls) EXCEPT
           !.restartTimer = TRUE,
           !.timers = (IF restartTimer THEN timers - 1 ELSE timers) + 1,
           !.restartLog = Append(restartLog,
                              [ delay |-> RestartDelayMs, cause |-> "start" ]),
           !.terminations = terminations + 1 ]

SetListenerState(st) ==
    /\ listeners' = st.listeners
    /\ proc' = st.proc
    /\ restartTimer' = st.restartTimer
    /\ timers' = st.timers
    /\ restartLog' = st.restartLog
    /\ runningResolved' = st.runningResolved
    /\ crashed' = st.crashed
    /\ terminations' = st.terminations

outsideListener ==
    << dedupeVars, inboundVars, pairingRequests, handlerVars, deliveryVars,
       turn, actionVars, stepVars >>

\* startListener(): nothing when stopped or aborted, else a new
\* startOpenzcaListener call, which runs up to the await of its spawn
startListener(timerAfter) ==
    /\ restartTimer' = timerAfter
    /\ IF stopped \/ aborted
       THEN /\ runningResolved' = TRUE
            /\ UNCHANGED listeners
       ELSE /\ Len(listeners) < MaxListeners
            /\ listeners' = Append(listeners, NewListener)
            /\ UNCHANGED runningResolved
    /\ UNCHANGED << stopped, aborted, proc, restartLog, crashed, terminations,
                    outsideListener >>

\* the first startListener() of monitorOpenzaloProvider
ListenerStart ==
    /\ ~started
    /\ started' = TRUE
    /\ UNCHANGED timers
    /\ startListener(restartTimer)

\* the restart timer fires: restartTimer = null; startListener()
RestartTimerFired ==
    /\ timers > 0
    /\ timers' = timers - 1
    /\ UNCHANGED started
    /\ startListener(FALSE)

\* the spawn of listener i settles: the process is up, startOpenzcaListener
\* attaches its handlers and its abort listener and startListener's .then
\* stores the process; or the spawn fails and startListener's .catch runs
SpawnSettled(i) ==
    /\ listeners[i].pc = "spawning"
    /\ \E ok \in BOOLEAN :
        IF ok
        THEN SetListenerState(
                 [ ListenerState([ listeners EXCEPT
                                   ![i].pc = "running", ![i].alive = TRUE,
                                   ![i].abortHooked = ~aborted ])
                   EXCEPT !.proc = i ])
        ELSE SetListenerState(
                 onStartFailure([ listeners EXCEPT ![i].pc = "failed" ]))
    /\ UNCHANGED << stopped, aborted, started, outsideListener >>

\* the running listener i terminates: reportTermination calls onError once
\* per listener; an exit after the abort is not reported
ListenerTerminated(i) ==
    /\ listeners[i].pc = "running"
    /\ listeners[i].alive
    /\ \E cause \in TerminationCauses, killThrows \in BOOLEAN :
        LET l == listeners[i]
            exited == [ listeners EXCEPT ![i].alive = FALSE ]
            reported == [ listeners EXCEPT ![i].reportedTermination = TRUE ]
        IN  CASE cause = "exit" ->
                   IF aborted \/ l.reportedTermination
                   THEN /\ ~killThrows
                        /\ SetListenerState(ListenerState(exited))
                   ELSE SetListenerState(
                            onError([ exited EXCEPT
                                      ![i].reportedTermination = TRUE ],
                                    cause, killThrows))
              [] cause = "stderr" ->
                   /\ ~l.reportedTermination
                   /\ LET st == onError(reported, cause, killThrows)
                      IN  SetListenerState(
                              [ st EXCEPT !.listeners[i].killed = TRUE ])
              [] cause = "error" ->
                   /\ ~l.reportedTermination
                   /\ SetListenerState(onError(reported, cause, killThrows))
    /\ UNCHANGED << stopped, aborted, started, outsideListener >>

\* the account's abort signal fires: the abort listeners registered so far
\* run (proc.kill("SIGTERM"), resolve of runningPromise)
Abort ==
    /\ ~aborted
    /\ aborted' = TRUE
    /\ listeners' = [ i \in DOMAIN listeners |->
                      IF listeners[i].abortHooked
                      THEN [ listeners[i] EXCEPT !.killed = TRUE ]
                      ELSE listeners[i] ]
    /\ runningResolved' = TRUE
    /\ UNCHANGED << stopped, proc, restartTimer, timers, started, restartLog,
                    crashed, terminations, outsideListener >>

\* stop(), which monitorOpenzaloProvider returns once runningPromise resolves
Stop ==
    /\ runningResolved
    /\ ~stopped
    /\ stopped' = TRUE
    /\ restartTimer' = FALSE
    /\ timers' = IF restartTimer /\ timers > 0 THEN timers - 1 ELSE timers
    /\ listeners' = IF proc # 0 THEN [ listeners EXCEPT ![proc].killed = TRUE ]
                    ELSE listeners
    /\ proc' = 0
    /\ UNCHANGED << aborted, started, restartLog, runningResolved, crashed,
                    terminations, outsideListener >>

\* The older monitor (its startOpenzcaListener has no reportTermination and
\* hands onError to runOpenzcaStreaming as it is; stop() and the abort
\* listeners are those of the newer one)

\* the onError callback of the older startListener, and its .catch: the
\* process is left alone and restartTimer is overwritten
oldOnError(st) ==
    IF stopped \/ aborted
    THEN [ st EXCEPT !.runningResolved = TRUE ]
    ELSE [ st EXCEPT
           !.restartTimer = TRUE,
           !.timers = st.timers + 1,
           !.restartLog = Append(st.restartLog,
                              [ delay |-> RestartDelayMs, cause |-> "error" ]) ]

\* restartTimer = setTimeout(startListener, 5000) fires: the handle stays
OldRestartTimerFired ==
    /\ timers > 0
    /\ timers' = timers - 1
    /\ UNCHANGED started
    /\ startListener(restartTimer)

\* the spawn of listener i settles in the older monitor
OldSpawnSettled(i) ==
    /\ listeners[i].pc = "spawning"
    /\ \E ok \in BOOLEAN :
        IF ok
        THEN SetListenerState(
                 [ ListenerState([ listeners EXCEPT
                                   ![i].pc = "running", ![i].alive = TRUE,
                                   ![i].abortHooked = ~aborted ])
                   EXCEPT !.proc = i ])
        ELSE SetListenerState(
                 oldOnError(ListenerState([ listeners EXCEPT ![i].pc = "failed" ])))
    /\ UNCHANGED << stopped, aborted, started, outsideListener >>

\* the running listener i of the older monitor closes with code 0 (nothing
\* is reported), closes with another code (promise.then calls onError), or
\* emits an error event: runOpenzcaStreaming calls onError and resolves the
\* promise with ok false, and promise.then calls onError again
OldListenerTerminated(i) ==
    /\ listeners[i].pc = "running"
    /\ listeners[i].alive
    /\ \E cause \in {"exit0", "exit", "error"} :
        LET l == listeners[i]
            exited == ListenerState([ listeners EXCEPT
                                      ![i].alive = FALSE,
                                      ![i].reportedTermination = TRUE ])
            settled == ListenerState([ listeners EXCEPT
                                       ![i].reportedTermination = TRUE ])
        IN  CASE cause = "exit0" -> SetListenerState(exited)
              [] cause = "exit" ->
                   SetListenerState(IF aborted \/ l.reportedTermination
                                    THEN exited ELSE oldOnError(exited))
              [] cause = "error" ->
                   /\ ~l.reportedTermination
                   /\ SetListenerState(IF aborted THEN oldOnError(settled)
                                       ELSE oldOnError(oldOnError(settled)))
    /\ UNCHANGED << stopped, aborted, started, outsideListener >>

\* the monitor is set up and about to start its first listener
ListenerInit ==
    /\ DedupeInit
    /\ InboundIdle
    /\ DeliveryIdle

----------------------------------------------------------------------------
(* Properties of the message actions *)

\* a send action to the thread the last action asked for succeeded, returned a
\* message id, and is no older than the cache keeps a reference
SendStillCached ==
    \E sent \in sentTo :
        /\ sent.threadId = lastAction.requested
        /\ sent.messageId # ""
        /\ now - sent.ts <= OPENZALO_UNDO_REF_MAX_AGE_MS

\* C22: an unsend that supplies no msgId/cliMsgId, for a thread a send action
\* has succeeded to, runs the transport undo with the ids of that send and
\* does not query the thread's recent messages.
C22_UnsendUsesSendRef ==
    (/\ lastAction.action = "unsend"
     /\ lastAction.gate
     /\ ~lastAction.supplied
     /\ SendStillCached)
    => /\ lastAction.transport = << "msg undo" >>
       /\ \E sent \in sentTo :
            /\ sent.threadId = lastAction.requested
            /\ sent.messageId = lastAction.msgId
       /\ lastAction.target = lastAction.requested

\* the place of a source in the order of the unsend resolution
SourceRank(source) ==
    CASE source = "params" -> 1
      [] source = "context" -> 2
      [] source = "cacheThread" -> 3
      [] source = "cacheLatest" -> 4
      [] source = "history" -> 5

\* C23: an unsend consults explicit parameters, tool/reply context ids, the
\* cached ref of the target thread, the latest cached ref of the account (only
\* without an explicit target) and the recent-history query in this order, and
\* consults a later source only while an id is still unresolved.
C23_UnsendSourceOrder ==
    LET consulted == lastAction.consulted
    IN  (lastAction.action = "unsend" /\ consulted # << >>) =>
          /\ consulted[1].source = "params"
          /\ \A i \in 2..Len(consulted) :
               /\ SourceRank(consulted[i - 1].source) < SourceRank(consulted[i].source)
               /\ consulted[i].msgId = "" \/ consulted[i].cliMsgId = ""
          /\ \A i \in DOMAIN consulted :
               consulted[i].source = "cacheLatest" => ~lastAction.explicitTarget
          /\ (\E i \in DOMAIN consulted : consulted[i].source = "history")
               <=> (\E j \in DOMAIN lastAction.transport :
                        lastAction.transport[j] = "msg recent")
          /\ (lastAction.msgId = "" \/ lastAction.cliMsgId = "") =>
               /\ consulted[Len(consulted)].source = "history"
               /\ Len(consulted) = IF lastAction.explicitTarget THEN 4 ELSE 5

\* an unsend without ids and without an explicit target found nothing cached
\* for the current thread and took the latest cached ref, of another thread
C23_Witness ==
    /\ lastAction.action = "unsend"
    /\ lastAction.outcome = "ok"
    /\ [ i \in DOMAIN lastAction.consulted |-> lastAction.consulted[i].source ]
         = << "params", "context", "cacheThread", "cacheLatest" >>
    /\ lastAction.requested = "t1"
    /\ lastAction.target = "t2"
    /\ lastAction.transport = << "msg undo" >>

\* C24: with the messages gate off read, edit, delete, unsend, pin, unpin and
\* member-info are rejected before any transport call; with the reactions
\* gate off react is rejected likewise; send runs whatever the gates are.
C24_GatesRejectBeforeTransport ==
    /\ (/\ lastAction.action \in
              {"read", "edit", "delete", "unsend", "pin", "unpin", "member-info"}
        /\ actions.messages = "off")
       => (lastAction.outcome = "rejected" /\ lastAction.transport = << >>)
    /\ (lastAction.action = "react" /\ actions.reactions = "off")
       => (lastAction.outcome = "rejected" /\ lastAction.transport = << >>)
    /\ lastAction.action = "send"
       => (lastAction.outcome # "rejected" /\ lastAction.transport = << "msg send" >>)

\* with both gates off a send has succeeded and a delete has then been rejected
C24_Witness ==
    /\ actions = [ messages |-> "off", reactions |-> "off" ]
    /\ sentTo # {}
    /\ lastAction.action = "delete"
    /\ lastAction.outcome = "rejected"
    /\ lastAction.transport = << >>

----------------------------------------------------------------------------
(* Properties of the content check *)

NoContent(message) ==
    message.body = "" /\ ~message.media /\ ~message.quote

\* C28: a message with no text, no media and no quote is dropped at once: it
\* passes no access check, raises no pairing request, is not recorded in the
\* session and is answered with nothing.
C28_EmptyDroppedFirst ==
    /\ \A i \in DOMAIN tasks :
         NoContent(tasks[i].message) =>
             /\ tasks[i].pc = "done"
             /\ tasks[i].outcome = "dropNoContent"
             /\ tasks[i].sends = {}
             /\ \A j \in DOMAIN sessionLog : sessionLog[j] # i
    /\ \A i \in DOMAIN turns :
         NoContent(turns[i].message) =>
             /\ turns[i].pc = "done"
             /\ turns[i].outcome = "dropNoContent"
             /\ ~turns[i].stored
             /\ ~turns[i].replied
    /\ \A sender \in pairingRequests :
         \E i \in DOMAIN tasks :
             tasks[i].message.sender = sender /\ ~NoContent(tasks[i].message)

\* under the pairing policy a stranger's empty direct message has been
\* dropped with no pairing request, and the same stranger's media message has
\* then raised one
C28_Witness ==
    /\ account.dmPolicy = "pairing"
    /\ Len(tasks) = 2
    /\ tasks[1].message.sender = "stranger"
    /\ NoContent(tasks[1].message)
    /\ tasks[1].outcome = "dropNoContent"
    /\ tasks[2].message.sender = "stranger"
    /\ tasks[2].message.media
    /\ "stranger" \in pairingRequests

----------------------------------------------------------------------------
(* Properties of the group policy step and of the history window *)

\* the group's id, prefixed id, name or slug is a key of the configured groups
GroupMatches ==
    \E key \in DOMAIN groupGate.groups :
        \/ key = groupGate.groupId
        \/ key = "group:" \o groupGate.groupId
        \/ groupGate.groupName # "" /\ key = groupGate.groupName
        \/ groupGate.groupName # "" /\ key = normalizeGroupSlug(groupGate.groupName)

\* C29: at the group policy step disabled drops the message, open lets it
\* proceed, and allowlist lets it proceed only if the group matches a
\* configured entry or the "*" entry is configured, and drops it otherwise.
C29_GroupPolicyDecides ==
    groupGate.pc = "decided" =>
        /\ groupGate.groupPolicy = "disabled" => groupGate.outcome = "drop"
        /\ groupGate.groupPolicy = "open" => groupGate.outcome = "proceed"
        /\ groupGate.groupPolicy = "allowlist" =>
             /\ groupGate.outcome = "proceed"
                  => (GroupMatches \/ "*" \in DOMAIN groupGate.groups)
             /\ ~(GroupMatches \/ "*" \in DOMAIN groupGate.groups)
                  => groupGate.outcome = "drop"

\* under allowlist a group proceeds through the slug of its name, with no
\* entry for its id and no "*" entry
C29_Witness ==
    /\ groupGate.pc = "decided"
    /\ groupGate.groupPolicy = "allowlist"
    /\ groupGate.groupName = "Team A"
    /\ DOMAIN groupGate.groups = {"team-a", "g2"}
    /\ groupGate.outcome = "proceed"

\* C30: for a context-sensitive group turn with base limit b > 0 the window
\* fetched is min(max(3b, b + 6), 50), and it is never smaller than b.
C30_WindowWidened ==
    (/\ historyFetch.pc = "fetched"
     /\ shouldExpandGroupHistoryWindow(historyFetch.bodyLength,
            historyFetch.hasQuote, historyFetch.referenceWord))
    => LET b == historyFetch.historyLimit
       IN  /\ historyFetch.limit = Min(Max(3 * b, b + 6), 50)
           /\ historyFetch.limit >= b

----------------------------------------------------------------------------
(* Properties of the listener *)

\* C25: the restart delay grows with each consecutive failed attempt (up to
\* a ceiling): a restart scheduled after a failed start that itself followed
\* a failed start waits longer than the one before it.
C25_RestartDelayGrows ==
    \A i \in 2..Len(restartLog) :
        (restartLog[i].cause = "start" /\ restartLog[i - 1].cause = "start")
        => restartLog[i].delay > restartLog[i - 1].delay

\* C26: the k-th termination that happens while the monitor is neither
\* stopped nor aborted is followed by the start of a further listener, unless
\* the monitor is stopped or aborted first; no handler lets an exception out.
C26_TerminationRestarts ==
    /\ [](~crashed)
    /\ \A k \in 1..(MaxListeners - 1) :
         (terminations = k) ~> (Len(listeners) > k \/ stopped \/ aborted)

\* two listeners have terminated, one of them by a failed start, a stale kill
\* threw, and the third listener is running
C26_Witness ==
    /\ terminations = 2
    /\ Len(listeners) = 3
    /\ listeners[3].pc = "running"
    /\ \E i \in 1..2 : listeners[i].pc = "failed"
    /\ \E i \in 1..2 : listeners[i].pc = "running" /\ ~listeners[i].killed
    /\ ~stopped
    /\ ~aborted

\* C27: after the abort every listener process that is up has been told to
\* terminate, and no listener is started, from a pending restart timer or
\* otherwise.
C27_AbortStopsListener ==
    /\ aborted =>
         \A i \in DOMAIN listeners :
             (listeners[i].pc = "running" /\ listeners[i].alive)
             => listeners[i].killed
    /\ \A i \in DOMAIN listeners : ~listeners[i].afterAbort

----------------------------------------------------------------------------
(* Properties of the outbound dedupe guard *)

AcquireCalled == lastCall.op = "acquire"

ReleaseCalled == lastCall.op = "release"

Refused == AcquireCalled /\ lastCall.res \in {"inflight", "recent"}

StaleAfterMs == 4 * OPENZALO_OUTBOUND_RECENT_TTL_MS

\* C1 as stated: whenever acquire is called for a signature that an earlier
\* call acquired, with no release in between, the later call is refused
\* with reason "inflight" (exactly one of the two calls acquires).
C1_AsStated ==
    (AcquireCalled /\ lastCall.heldSince.def) => lastCall.res = "inflight"

\* C1: if an acquire for S returned acquired=true and acquire is called again
\* for S no more than 4 x TTL (60000 ms) later with no release in between,
\* the second call is refused with reason "inflight".
C1_InflightExclusive ==
    (/\ AcquireCalled
     /\ lastCall.heldSince.def
     /\ clock - lastCall.heldSince.v <= StaleAfterMs)
        => lastCall.res = "inflight"

\* a second acquire exactly 4 x TTL after the first, refused as inflight
C1_Witness ==
    /\ AcquireCalled
    /\ lastCall.heldSince.def
    /\ clock - lastCall.heldSince.v = StaleAfterMs
    /\ lastCall.res = "inflight"

\* C2: after the holder's release(sent=true) at T, an acquire of the same
\* signature at t < T + TTL is refused with reason "recent", and the first
\* acquire at t >= T + TTL succeeds.
C2_RecentWindow ==
    (AcquireCalled /\ lastCall.sentAt.def) =>
        IF clock < lastCall.sentAt.v + OPENZALO_OUTBOUND_RECENT_TTL_MS
        THEN lastCall.res = "recent"
        ELSE lastCall.res = "acquired"

\* an acquire in the last millisecond of the window, refused as recent
C2_Witness ==
    /\ AcquireCalled
    /\ lastCall.sentAt.def
    /\ clock = lastCall.sentAt.v + OPENZALO_OUTBOUND_RECENT_TTL_MS - 1
    /\ lastCall.res = "recent"

\* C3: after the holder's release(sent=false) the signature has no recent
\* entry, and an acquire of the same signature made at once succeeds.
C3_FailedSendRetry ==
    (ReleaseCalled /\ lastCall.holder /\ ~lastCall.sent) =>
        /\ lastCall.sig \notin RecentKeys(recentBySignature)
        /\ acquireOpenzaloOutboundDedupeSlot(
               DedupeState, Payloads[owner[lastCall.sig]], clock).acquired

\* the holder released with sent=false while another signature is recent
C3_Witness ==
    /\ ReleaseCalled
    /\ lastCall.holder
    /\ ~lastCall.sent
    /\ recentBySignature # << >>

\* the two payloads differ in `sequence` and in nothing else
DifferOnlyInSequence(a, b) ==
    /\ a.sequence # b.sequence
    /\ [a EXCEPT !.sequence = NoNum] = [b EXCEPT !.sequence = NoNum]

C6_StaleSweep ==
    AcquireCalled =>
        /\ \A e \in lastCall.swept : e.age > StaleAfterMs
        /\ \A s \in DOMAIN inflightBySignature :
               clock - inflightBySignature[s].createdAt <= StaleAfterMs
        /\ \A t \in DOMAIN inflightByTicket :
               clock - inflightByTicket[t].createdAt <= StaleAfterMs
        /\ (lastCall.heldSince.def
              /\ clock - lastCall.heldSince.v > StaleAfterMs)
                  => lastCall.res = "acquired"

\* one entry aged 60001 ms is swept while one aged 60000 ms stays
C6_Witness ==
    /\ AcquireCalled
    /\ \E e \in lastCall.swept : e.age = StaleAfterMs + 1
    /\ \E s \in DOMAIN inflightBySignature :
           clock - inflightBySignature[s].createdAt = StaleAfterMs

----------------------------------------------------------------------------
(* Properties of the inbound pipeline *)

\* the task has left the gates that follow recordInboundSession
PastGates(t) == t.pc \in {"notice", "history", "dispatch", "done"} /\ t.outcome # "none"

\* the message reached the reply dispatch
ReachedDispatch(t) == t.pc \in {"history", "dispatch"} \/ t.outcome = "dispatched"

\* C7: of two messages of one conversation, the later one's processing does
\* not begin before the earlier one's reply dispatch has completed, and at
\* most one reply dispatch of the conversation is in flight.
C7_LaneOrdering ==
    /\ \A i, j \in DOMAIN tasks : i < j => tasks[i].pc = "done"
    /\ Cardinality({ i \in DOMAIN tasks : tasks[i].pc = "dispatch" }) <= 1

\* mention is required, cannot be detected, and the failure mode is deny
DetectionDenied ==
    /\ ~groupPolicyDrops(account)
    /\ account.requireMention
    /\ account.botUserId = "undefined"
    /\ account.groupMentionDetectionFailure = "deny"

\* C8: when mention is required, cannot be detected and the failure mode is
\* deny, no ordinary group message reaches the reply dispatch, however many
\* messages arrived before it in the conversation.
C8_DenyOnDetectionFailure ==
    DetectionDenied =>
        \A i \in DOMAIN tasks :
            ~resolveFlags(account, tasks[i].message).isControlCommand
                => ~ReachedDispatch(tasks[i])

\* an authorized control command that does not mention the bot, in a
\* mention-required group admitted by the group policy
AuthorizedUnmentionedCommand(t) ==
    LET f == resolveFlags(account, t.message)
    IN  /\ ~groupPolicyDrops(account)
        /\ account.requireMention
        /\ f.isControlCommand
        /\ f.canRunControlCommand
        /\ ~t.message.mentioned

\* C9 as stated: such a command passes the mention gate and is processed.
C9_AsStated ==
    \A i \in DOMAIN tasks :
        (AuthorizedUnmentionedCommand(tasks[i]) /\ PastGates(tasks[i]))
            => tasks[i].outcome \in {"pass", "dispatched", "humanPassSet"}

\* C9: such a command is never dropped by the mention gate; it is processed
\* unless human pass is on for the conversation when it reaches the gates.
C9_CommandBypassesMention ==
    \A i \in DOMAIN tasks :
        (AuthorizedUnmentionedCommand(tasks[i]) /\ PastGates(tasks[i]))
            => /\ tasks[i].outcome
                    \notin {"dropNotMentioned", "dropDetectionUnavailable"}
               /\ (~tasks[i].humanPassSeen
                     \/ resolveFlags(account, tasks[i].message).humanPassCommand
                            # "null")
                    => tasks[i].outcome \in {"pass", "dispatched", "humanPassSet"}

\* the owner's unmentioned /new is dispatched where mentions are detectable
C9_Witness ==
    /\ account.requireMention
    /\ account.botUserId = "bot"
    /\ \E i \in DOMAIN tasks :
        /\ AuthorizedUnmentionedCommand(tasks[i])
        /\ tasks[i].message.body = "/new"
        /\ tasks[i].outcome = "dispatched"

\* C10: a group control command of a sender who may not run it is never
\* handed to recordInboundSession.
C10_DropBeforeRecording ==
    \A i \in DOMAIN tasks :
        LET f == resolveFlags(account, tasks[i].message)
        IN  (f.isControlCommand /\ ~f.canRunControlCommand)
                => \A k \in DOMAIN sessionLog : sessionLog[k] # i

\* C11: a message that is not a human pass command and whose human pass
\* check finds the conversation's flag set causes no reply dispatch, no
\* typing indicator and no other outbound send.
C11_HumanPassSilences ==
    \A i \in DOMAIN tasks :
        (/\ tasks[i].humanPassSeen
         /\ resolveFlags(account, tasks[i].message).humanPassCommand = "null")
            => /\ ~ReachedDispatch(tasks[i])
               /\ tasks[i].sends = {}
               /\ tasks[i].pc = "done"

\* after the owner's "human pass on" a guest's mentioned hello is skipped
C11_Witness ==
    /\ ~groupPolicyDrops(account)
    /\ \E i, j \in DOMAIN tasks :
        /\ i < j
        /\ tasks[i].outcome = "humanPassSet"
        /\ "notice" \in tasks[i].sends
        /\ tasks[j].message.sender = "guest"
        /\ tasks[j].message.body = "hello"
        /\ tasks[j].message.mentioned
        /\ tasks[j].humanPassSeen
        /\ tasks[j].outcome = "humanPassSkip"

\* position of task i in the session log, 0 when it was never recorded
LogIndex(i) ==
    IF \E k \in DOMAIN sessionLog : sessionLog[k] = i
    THEN CHOOSE k \in DOMAIN sessionLog : sessionLog[k] = i
    ELSE 0

\* C12: a message skipped because human pass is on has been handed to the
\* session store, where it precedes every later message of the conversation,
\* so a later turn that is dispatched finds it there.
C12_SkippedStillRecorded ==
    \A i \in DOMAIN tasks :
        tasks[i].outcome = "humanPassSkip"
            => /\ LogIndex(i) > 0
               /\ \A j \in DOMAIN tasks :
                      (j > i /\ ReachedDispatch(tasks[j]))
                          => LogIndex(i) < LogIndex(j)

\* a hello skipped during human pass is in the session log once the flag
\* has been switched off again
C12_Witness ==
    /\ ChatId \notin humanPassSessions
    /\ \E i, j \in DOMAIN tasks :
        /\ i < j
        /\ tasks[i].outcome = "humanPassSkip"
        /\ tasks[i].message.body = "hello"
        /\ LogIndex(i) > 0
        /\ parseHumanPassCommand(tasks[j].message.body) = "off"
        /\ tasks[j].outcome = "humanPassSet"
        /\ tasks[j].pc = "done"

\* C13: when an authorized "human pass off" is processed the conversation's
\* flag is cleared, whether or not it was set, and a message whose human pass
\* check runs while the flag is cleared is not skipped on its account.
C13_HumanPassOffResumes ==
    [][\A i \in DOMAIN tasks :
          (tasks[i].pc = "record" /\ tasks'[i].pc # "record") =>
              LET f == resolveFlags(account, tasks[i].message)
              IN  /\ (f.humanPassCommand = "off" /\ f.canManageHumanPass)
                        => /\ tasks'[i].outcome = "humanPassSet"
                           /\ ChatId \notin humanPassSessions'
                  /\ (f.humanPassCommand = "null"
                        /\ ChatId \notin humanPassSessions)
                        => tasks'[i].outcome # "humanPassSkip"]_vars

\* on, then off processed while the flag is set, then a hello that is
\* answered with a reply
C13_Witness ==
    /\ Len(tasks) = 3
    /\ ChatId \notin humanPassSessions
    /\ tasks[1].message.body = "human pass on"
    /\ tasks[1].outcome = "humanPassSet"
    /\ tasks[2].message.body = "human pass off"
    /\ tasks[2].humanPassSeen
    /\ tasks[2].outcome = "humanPassSet"
    /\ tasks[3].message.body = "hello"
    /\ ~tasks[3].humanPassSeen
    /\ tasks[3].outcome = "dispatched"
    /\ "reply" \in tasks[3].sends

\* the direct-message tasks of a sender
TasksOf(sender) ==
    { i \in DOMAIN tasks :
        ~tasks[i].message.isGroup /\ tasks[i].message.sender = sender }

\* the tasks of a sender that handed a pairing reply to the transport
PairingRepliesOf(sender) ==
    { i \in TasksOf(sender) : "pairing" \in tasks[i].sends }

\* C14: under dmPolicy = pairing, the direct messages of a sender who is not
\* in the allow-list never reach the session store or the reply dispatch and
\* send nothing but the pairing reply; at most one pairing reply goes to the
\* sender, and exactly one once all his messages have been processed.
C14_PairingOnce ==
    account.dmPolicy = "pairing" =>
        \A sender \in { m.sender : m \in DmMessages } :
            ~isSenderAllowed(sender, AllowFrom \cup storeAllowFrom) =>
                /\ \A i \in TasksOf(sender) :
                       /\ ~ReachedDispatch(tasks[i])
                       /\ LogIndex(i) = 0
                       /\ tasks[i].sends \subseteq {"pairing"}
                /\ Cardinality(PairingRepliesOf(sender)) <= 1
                /\ (TasksOf(sender) # {}
                      /\ \A i \in TasksOf(sender) : tasks[i].pc = "done")
                        => Cardinality(PairingRepliesOf(sender)) = 1

\* two direct messages of the stranger: one pairing reply, and the other
\* message finds the request pending
C14_Witness ==
    /\ account.dmPolicy = "pairing"
    /\ Cardinality(TasksOf("stranger")) = 2
    /\ \A i \in TasksOf("stranger") : tasks[i].pc = "done"
    /\ Cardinality(PairingRepliesOf("stranger")) = 1
    /\ \E i \in TasksOf("stranger") : tasks[i].outcome = "pairingPending"

\* the turn's message does not mention the bot and has left the gates
WithheldCandidate(t) == ~t.message.mentioned /\ t.outcome # "none"

\* the ids of the turns before j that were stored and not yet injected into
\* a turn that went on to the dispatch, oldest first
RECURSIVE StoredBefore(_)
StoredBefore(j) ==
    IF j <= 1 THEN << >>
    ELSE IF turns[j - 1].outcome \in {"pass", "dispatched"}
              /\ (Len(turns[j - 1].inboundHistory) > 0 \/ turns[j - 1].pc # "done")
    THEN << >>
    ELSE IF turns[j - 1].stored THEN Append(StoredBefore(j - 1), j - 1)
    ELSE StoredBefore(j - 1)

----------------------------------------------------------------------------
(* Properties of the reply delivery *)

\* the entries of sendLog that were handed to the transport
Transported == { i \in DOMAIN sendLog : sendLog[i].result # "skipped" }

\* C16: every reply text chunk and every reply media item reaches the
\* transport only while its own dedupe ticket is held: the acquire precedes
\* the send, and the ticket is released after the attempt, with sent=true
\* after a success and sent=false after a failure or a throw.
C16_TicketHeldAroundSend ==
    \A i \in Transported :
        LET e == sendLog[i]
        IN  /\ e.acquired
            /\ e.held
            /\ e.result = "pending" => MapHas(inflightByTicket, e.ticket.id)
            /\ e.result = "ok" =>
                   e.released = "sentTrue" /\ ~MapHas(inflightByTicket, e.ticket.id)
            /\ e.result = "failed" =>
                   e.released = "sentFalse" /\ ~MapHas(inflightByTicket, e.ticket.id)

\* the entries of sendLog for the text chunks of the reply-th payload
ChunksOf(reply) ==
    { i \in DOMAIN sendLog :
          sendLog[i].reply = reply /\ sendLog[i].kind = "text" }

\* C17 as stated: the chunks of one reply carry pairwise distinct sequence
\* numbers.
C17_AsStated ==
    \A r \in DOMAIN replies :
        \A i, j \in ChunksOf(r) :
            i # j => sendLog[i].sequence # sendLog[j].sequence

\* C17: when a reply text is split into several chunks, each chunk that is
\* sent has passed through the dedupe guard on its own (its own acquire and
\* its own ticket), the k-th chunk with a given text carries sequence number
\* k, and so the chunks of the reply carry pairwise distinct signatures.
C17_ChunkSequences ==
    \A r \in DOMAIN replies :
        \A i \in ChunksOf(r) :
            /\ sendLog[i].sequence =
                   Cardinality({ j \in ChunksOf(r) :
                                   j <= i /\ sendLog[j].key = sendLog[i].key })
            /\ i \in Transported => sendLog[i].acquired /\ sendLog[i].held
            /\ \A j \in ChunksOf(r) :
                   i # j =>
                       /\ sendLog[i].signature # sendLog[j].signature
                       /\ (i \in Transported /\ j \in Transported)
                              => sendLog[i].ticket # sendLog[j].ticket

\* a 5000-character reply was sent as three chunks, the first two with the
\* same text: sequence numbers 1, 2, 1, each chunk under its own ticket
C17_Witness ==
    \E r \in DOMAIN replies :
        /\ Cardinality(ChunksOf(r)) = 3
        /\ \E i \in ChunksOf(r) :
            /\ {i, i + 1, i + 2} = ChunksOf(r)
            /\ sendLog[i].key = sendLog[i + 1].key
            /\ sendLog[i].key # sendLog[i + 2].key
            /\ << sendLog[i].sequence, sendLog[i + 1].sequence,
                  sendLog[i + 2].sequence >> = << 1, 2, 1 >>
            /\ \A j \in ChunksOf(r) : sendLog[j].result = "ok"

\* C18: within one turn the k-th occurrence of an identical payload value
\* (the same kind and the same text, or caption and file) is given sequence
\* number k, and no occurrence is refused by the dedupe guard as inflight or
\* recent.
C18_RepeatsDelivered ==
    \A i \in DOMAIN sendLog :
        /\ sendLog[i].sequence =
               Cardinality({ j \in DOMAIN sendLog :
                               /\ j <= i
                               /\ sendLog[j].kind = sendLog[i].kind
                               /\ sendLog[j].key = sendLog[i].key })
        /\ sendLog[i].acquired

\* min(configured textChunkLimit, 2000); 2000 when nothing is configured
ConfiguredCap ==
    IF textChunkLimit.def /\ textChunkLimit.v < OPENZALO_TEXT_LIMIT
    THEN textChunkLimit.v ELSE OPENZALO_TEXT_LIMIT

\* C19: every text chunk handed to the transport has at most
\* min(configured textChunkLimit, 2000) characters, whatever the configured
\* value is.
C19_ChunkLengthCapped ==
    \A i \in Transported :
        sendLog[i].kind = "text" => StrLen(sendLog[i].text) <= ConfiguredCap

\* the delivery of the current payload is over, by return or by throw
CallOver == call.reply > 0 /\ call.pc \in {"returned", "threw"}

\* C20: when sending one chunk or media item of a reply fails, the remaining
\* chunks / media items of that reply are still attempted, and the failure
\* is recorded in the turn-level failure flag.
C20_FailureRecovered ==
    (/\ CallOver
     /\ \E i \in DOMAIN sendLog :
            sendLog[i].reply = call.reply /\ sendLog[i].result = "failed")
    => /\ \A pos \in DOMAIN call.items :
              \E i \in DOMAIN sendLog :
                  sendLog[i].reply = call.reply /\ sendLog[i].pos = pos
       /\ hadDispatchError

\* a send of the turn failed, or the dispatch threw
TurnHadDispatchError ==
    hadDispatchError \/ \E i \in DOMAIN sendLog : sendLog[i].result = "failed"

\* C21: at the end of a turn the failure notice has been sent, exactly once,
\* if and only if no chunk or media item of the turn was sent successfully, a
\* dispatch error or typing-start error occurred, and the failure-notice
\* feature is enabled; before the end of the turn no notice is sent.
C21_FailureNoticeOnce ==
    LET due == /\ \A i \in DOMAIN sendLog : sendLog[i].result # "ok"
               /\ TurnHadDispatchError \/ turn.hadTypingError
               /\ turn.sendFailureNotice # Some(FALSE)
    IN  /\ turn.notices \in {0, 1}
        /\ turn.pc # "done" => turn.notices = 0
        /\ turn.pc = "done" => (turn.notices = 1 <=> due)

\* the notice went out for a turn whose only error was the typing start, with
\* the feature left at its default and a payload that was never delivered
C21_Witness ==
    /\ turn.pc = "done"
    /\ turn.notices = 1
    /\ turn.hadTypingError
    /\ ~TurnHadDispatchError
    /\ ~turn.sendFailureNotice.def
    /\ sendLog = << >>

----------------------------------------------------------------------------
Init == DedupeInit /\ InboundIdle /\ DeliveryIdle

Next == Tick \/ Acquire \/ Release

Spec == Init /\ [][Next]_vars

InboundSpecInit == DedupeInit /\ InboundInit /\ DeliveryIdle

InboundNext ==
    Receive \/ AfterRecord \/ NoticeSent \/ HistoryLoaded \/ DispatchDone

InboundSpec == InboundSpecInit /\ [][InboundNext]_vars

HumanPassSpecInit == DedupeInit /\ HumanPassInit /\ DeliveryIdle

HumanPassNext ==
    ReceiveTurn \/ AfterRecord \/ NoticeSent \/ HistoryLoaded \/ DispatchDone

HumanPassSpec == HumanPassSpecInit /\ [][HumanPassNext]_vars

DmSpecInit == DedupeInit /\ DmInit /\ DeliveryIdle

DmNext ==
    \/ ReceiveDm \/ AllowFromRead \/ PairingUpserted \/ PairingReplySent
    \/ AfterRecord \/ NoticeSent \/ DispatchDone

DmSpec == DmSpecInit /\ [][DmNext]_vars

HandlerSpecInit == DedupeInit /\ HandlerInit /\ DeliveryIdle

HandlerNext ==
    HandlerReceive \/ HandlerGates \/ HandlerRecorded \/ HandlerDispatched

HandlerSpec == HandlerSpecInit /\ [][HandlerNext]_vars

DeliverNext == DeliverStart \/ DeliverItem \/ DeliverSettled

DeliverSpec == DeliverInit /\ [][DeliverNext]_vars

MonitorDeliverNext == MonitorDeliverStart \/ MonitorSend

MonitorDeliverSpec == DeliverInit /\ [][MonitorDeliverNext]_vars

TurnNext ==
    TypingStarted \/ MonitorDeliverStart \/ MonitorSend \/ DispatchSettled

TurnSpec == DeliverInit /\ [][TurnNext]_vars

ActionsNext == HandleSend \/ HandleGated \/ HandleUnsend

ActionsSpec == ActionsInit /\ [][ActionsNext]_vars

ContentNext ==
    \/ ReceiveContent \/ AllowFromRead \/ PairingUpserted \/ PairingReplySent
    \/ AfterRecord \/ NoticeSent \/ HistoryLoaded \/ DispatchDone
    \/ HandlerReceiveContent \/ HandlerGates \/ HandlerRecorded
    \/ HandlerDispatched

ContentSpec == ContentInit /\ [][ContentNext]_vars

GroupGateNext == GroupPolicyStep

GroupGateSpec == GroupGateInit /\ [][GroupGateNext]_vars

HistoryNext == HistoryBackfill

HistorySpec == HistoryInit /\ [][HistoryNext]_vars

ListenerNext ==
    \/ ListenerStart
    \/ RestartTimerFired
    \/ \E i \in DOMAIN listeners : SpawnSettled(i)
    \/ \E i \in DOMAIN listeners : ListenerTerminated(i)
    \/ Abort
    \/ Stop

ListenerSpec == ListenerInit /\ [][ListenerNext]_vars

\* timers fire and a startListener() that is due runs
ListenerFairSpec ==
    /\ ListenerSpec
    /\ WF_vars(ListenerStart)
    /\ WF_vars(RestartTimerFired)

----------------------------------------------------------------------------
(* The undo-reference cache on its own *)

CacheNext == CacheFresh \/ CacheAgain \/ CacheLookup

CacheSpec == CacheInit /\ [][CacheNext]_vars

\* C31: the undo-reference cache of the account holds at most 40 entries,
\* newest first, and a lookup never returns an entry older than 30 minutes.
C31_CacheBounded ==
    /\ Len(openzaloUndoRefCache) <= OPENZALO_UNDO_REF_MAX_PER_ACCOUNT
    /\ \A i, j \in DOMAIN openzaloUndoRefCache :
        i < j => openzaloUndoRefCache[i].ts >= openzaloUndoRefCache[j].ts
    /\ (lastAction.action = "lookup" /\ lastAction.outcome = "found")
       => now - lastAction.consulted[1].ts <= OPENZALO_UNDO_REF_MAX_AGE_MS

\* a forty-first message has been cached 1 ms after the fortieth, the cache
\* holds forty entries without the first, and a lookup has returned one
C31_Witness ==
    /\ Len(openzaloUndoRefCache) = OPENZALO_UNDO_REF_MAX_PER_ACCOUNT
    /\ \E i \in DOMAIN openzaloUndoRefCache :
        openzaloUndoRefCache[i].msgId = "41"
    /\ \A i \in DOMAIN openzaloUndoRefCache :
        openzaloUndoRefCache[i].msgId # "1"
    /\ now = 41
    /\ lastAction.action = "lookup"
    /\ lastAction.outcome = "found"

----------------------------------------------------------------------------
(* More properties of the outbound dedupe guard *)

\* the executing send attempts for one signature
ExecutingFor(sig) == { e \in executing : e.signature = sig }

\* C32 as stated: at every moment at most one send attempt per signature is
\* executing, however long the holder's send takes: no two tickets of one
\* signature are outstanding (acquired and not yet passed to release).
C32_AsStated ==
    \A a, b \in executing : a.signature = b.signature => a = b

\* C32: while a ticket for S is outstanding and was acquired no more than
\* 4 x TTL (60000 ms) ago, no other acquire for S succeeds: two outstanding
\* tickets of one signature were acquired more than 60000 ms apart.
C32_OneSendPerSignature ==
    \A a, b \in executing :
        (a.signature = b.signature /\ a.since <= b.since /\ a # b)
            => b.since - a.since > StaleAfterMs

\* an acquire refused as inflight exactly 60000 ms into the only executing
\* send of its signature
C32_Witness ==
    /\ AcquireCalled
    /\ lastCall.res = "inflight"
    /\ Cardinality(ExecutingFor(lastCall.sig)) = 1
    /\ \E e \in ExecutingFor(lastCall.sig) : clock - e.since = StaleAfterMs

\* the ticket is the in-flight entry of its signature
CurrentHolder(ticket) ==
    /\ MapHas(inflightBySignature, ticket.signature)
    /\ inflightBySignature[ticket.signature].ticketId = ticket.id

\* C33: a release of a ticket that is not the current in-flight holder of
\* its signature changes nothing in the guard: no in-flight entry is freed
\* and no recent entry is written.
C33_StaleReleaseInert ==
    [][ (/\ lastCall'.op = "release"
         /\ steps' = steps + 1
         /\ ~CurrentHolder(lastCall'.ticket))
        => UNCHANGED << inflightBySignature, inflightByTicket,
                        recentBySignature, nextTicketId >> ]_vars

\* a ticket swept as stale has been released after a newer ticket acquired
\* its signature, and the newer ticket still holds it
C33_Witness ==
    /\ ReleaseCalled
    /\ ~lastCall.holder
    /\ MapHas(inflightBySignature, lastCall.sig)
    /\ inflightBySignature[lastCall.sig].ticketId # lastCall.ticket.id
    /\ lastCall.sig \notin RecentKeys(recentBySignature)

----------------------------------------------------------------------------
(* The listener of the older monitor, and more properties of the listener *)

OldListenerNext ==
    \/ ListenerStart
    \/ OldRestartTimerFired
    \/ \E i \in DOMAIN listeners : OldSpawnSettled(i)
    \/ \E i \in DOMAIN listeners : OldListenerTerminated(i)
    \/ Abort
    \/ Stop

OldListenerSpec == ListenerInit /\ [][OldListenerNext]_vars

\* the listener processes that are up and have not exited
LiveListeners == { i \in DOMAIN listeners :
                     listeners[i].pc = "running" /\ listeners[i].alive }

\* C34: at any time the monitor of an account has at most one restart timer
\* pending and at most one live listener process.
C34_OneTimerOneListener ==
    /\ timers <= 1
    /\ Cardinality(LiveListeners) <= 1

\* C35: after stop() no listener process remains running and none comes up
\* later: every listener process that is up has been sent SIGTERM, the one
\* whose start was in progress when stop() was called included.
C35_StopEndsListeners ==
    stopped => \A i \in LiveListeners : listeners[i].killed

----------------------------------------------------------------------------
(* The handler behind the lane of its conversation *)

LaneNext ==
    LaneArrive \/ LaneHandOver \/ HandlerGates \/ HandlerRecorded
        \/ HandlerDispatched

LaneSpec == HandlerSpecInit /\ [][LaneNext]_vars

\* the turn's message is among the ids of a history
InHistory(i, history) == \E k \in DOMAIN history : history[k] = i

----------------------------------------------------------------------------
(* More properties of the message actions *)

\* the ids a caller supplies (params, tool context) and the ids of the
\* message a cached or history-recovered reference names
CallerIds == {"mp", "cp", "mq", "cq"}

RecoveredIds == {"mh", "ch"}

\* C37: the msgId and cliMsgId passed to the transport undo command identify
\* one and the same message: an id supplied by the caller is never combined
\* with the other id of a cached or history-recovered reference.
C37_UndoIdsOfOneMessage ==
    (/\ lastAction.action = "unsend"
     /\ \E j \in DOMAIN lastAction.transport :
            lastAction.transport[j] = "msg undo")
    => /\ ~(lastAction.msgId \in CallerIds /\ lastAction.cliMsgId \in RecoveredIds)
       /\ ~(lastAction.msgId \in RecoveredIds /\ lastAction.cliMsgId \in CallerIds)

----------------------------------------------------------------------------
(* More properties of the group policy step *)

\* the keys of the configured groups that name the group of the message
OwnKeys ==
    { key \in DOMAIN groupGate.groups :
        \/ key = groupGate.groupId
        \/ key = "group:" \o groupGate.groupId
        \/ groupGate.groupName # "" /\ key = groupGate.groupName
        \/ groupGate.groupName # "" /\ key = normalizeGroupSlug(groupGate.groupName) }

\* the own entry the lookup reads: by id, prefixed id, name, slug of the name
FirstOwnKey ==
    IF groupGate.groupId \in OwnKeys THEN groupGate.groupId
    ELSE IF ("group:" \o groupGate.groupId) \in OwnKeys
    THEN "group:" \o groupGate.groupId
    ELSE IF groupGate.groupName \in OwnKeys THEN groupGate.groupName
    ELSE normalizeGroupSlug(groupGate.groupName)

\* C38 as stated: a group with an own entry that has allow=false or
\* enabled=false is dropped at the group policy step under every groupPolicy.
C38_AsStated ==
    (/\ groupGate.pc = "decided"
     /\ \E key \in OwnKeys : groupGate.groups[key] # "plain")
    => groupGate.outcome = "drop"

\* C38: under groupPolicy allowlist or disabled a group is dropped at the
\* group policy step, and so never gets a reply, when the first of its own
\* entries (by id, prefixed id, name, slug of the name) has allow=false or
\* enabled=false, even when a "*" entry would allow it.
C38_OwnEntryOffDrops ==
    (/\ groupGate.pc = "decided"
     /\ groupGate.groupPolicy # "open"
     /\ OwnKeys # {}
     /\ groupGate.groups[FirstOwnKey] # "plain")
    => groupGate.outcome = "drop"

\* under allowlist a group whose own entry has enabled=false is dropped
\* although the "*" entry allows
C38_Witness ==
    /\ groupGate.pc = "decided"
    /\ groupGate.groupPolicy = "allowlist"
    /\ DOMAIN groupGate.groups = {"g1", "*"}
    /\ groupGate.groups["g1"] = "enabledFalse"
    /\ groupGate.groups["*"] = "plain"
    /\ groupGate.outcome = "drop"

----------------------------------------------------------------------------
(* The in-process client and its properties *)

ClientNext ==
    \/ ClientLoginCalled \/ ClientLoginSettled \/ ClientStartListener
    \/ ClientDisconnected \/ ClientStop
    \/ \E i \in DOMAIN client.reconnects : ReconnectBackoffElapsed(i)
    \/ \E i \in DOMAIN client.reconnects : ReconnectLoginSettled(i)

ClientSpec == ClientInit /\ [][ClientNext]_vars

\* C39: after stop() has been called the client stays disconnected: no api
\* object is held and no listener runs, also when a handleReconnect call was
\* waiting in its backoff delay at the time of the stop.
C39_StoppedStaysDisconnected ==
    client.stopCalled =>
        /\ ~client.api
        /\ ~client.listenerStarted
        /\ ~client.listening

----------------------------------------------------------------------------
(* The transport command and its properties *)

CommandNext ==
    \/ runOpenzca \/ OpenzcaSpawnSettled \/ runOpenzcaCommand
    \/ CommandTimeoutFired \/ CommandKillTimerFired \/ CommandAborted
    \/ ChildError \/ ChildExited \/ ChildKilledBySignal

CommandSpec == CommandInit /\ [][CommandNext]_vars

\* a timer that is set fires, a spawn settles, an "error" event is
\* delivered, and a child that was sent a signal it dies of does die
CommandFairSpec ==
    /\ CommandSpec
    /\ WF_vars(OpenzcaSpawnSettled)
    /\ WF_vars(CommandTimeoutFired)
    /\ WF_vars(CommandKillTimerFired)
    /\ WF_vars(ChildError)
    /\ WF_vars(ChildKilledBySignal)

\* C40: the promise of a transport command is settled once and keeps its
\* result, and a command whose timeout has fired is settled with a failure
\* result, also when the child does not exit on SIGTERM.
C40_SettlesOnceAndOnTimeout ==
    /\ [][command.promise # "pending" => /\ command'.promise = command.promise
                                         /\ command'.result = command.result]_vars
    /\ command.timedOut
         ~> (command.promise # "pending" /\ command.result = "failed")

====
